---- MODULE Spec2Model ----
(***************************************************************************)
(* Request-mediation pipeline of the API gateway: the three middleware     *)
(* classes of gateway/middleware.py (authentication, rate limiting,        *)
(* request logging), the proxy view of gateway/views.py and the            *)
(* ProxyService of gateway/proxy.py, with the helpers of gateway/utils.py. *)
(*                                                                         *)
(* Every worker handles one request at a time.  A request walks through    *)
(* the middleware hooks and the view one step at a time; each step that    *)
(* touches the key store, the cache, the clock, the log table or the       *)
(* network is one action, so that concurrent requests interleave at the    *)
(* granularity of those accesses.                                          *)
(***************************************************************************)
EXTENDS Integers, Sequences, FiniteSets, Bags, TLC

\* ------------------------------------------------------------------ bounds
Workers == {"w1", "w2"}          \* request handlers that can run concurrently
MaxRequests == 2                 \* requests served in one behaviour of Spec
RateRequests == 3                \* requests served in one behaviour of the rate-limiter specifications
ManageRequests == 2              \* requests served in one behaviour of SpecManage
LiveRequests == 1                \* requests served in one behaviour of SpecLive
ForwardRequests == 1             \* requests served in one behaviour of SpecForward
ProbeRequests == 2               \* requests served in one behaviour of SpecProbe
ScopeRequests == 3               \* requests served in one behaviour of SpecScope
AuthRequests == 1                \* requests served in one behaviour of SpecAuth
StartTime == 3480                \* clock at start: minute 58 of hour 0
TickStep == 60                   \* seconds the clock advances per Tick
MaxTime == 3600                  \* the clock stops here: minute 60, hour 1
MinuteQuotas == {1, 2}           \* requests_per_minute values tried
HourQuotas == {1, 2}             \* requests_per_hour values tried
PipelineQuotas == {<<1, 1>>, <<2, 1>>}   \* (per minute, per hour) tried in Spec
LiveQuotas == {<<1, 1>>, <<0, 1>>, <<1, 0>>}   \* (per minute, per hour) tried in SpecLive

\* ------------------------------------------------- program constants
MinuteWindow == 60
HourWindow == 3600
MinuteRetryAfter == 60
HourRetryAfter == 3600
MinuteTimeout == 60
HourTimeout == 3600
DefaultTimeout == 30
NewKeyPerMinute == 60
NewKeyPerHour == 1000
BodyLogLimit == 1000
ProbeTimeout == 5

VARIABLES
    now,          \* time.time(), whole seconds
    apikeys,      \* APIKey table: secret -> row
    services,     \* ServiceConfig table: name -> row
    cache,        \* django cache: key -> [val, exp]
    logs,         \* RequestLog table: bag of rows
    req,          \* per worker: the request being handled and its locals
    served,       \* number of requests that have arrived so far
    env,          \* what the surroundings do in this behaviour (never changes)
    loggingOuter, \* MIDDLEWARE order: is RequestLoggingMiddleware listed first
    passedMin,    \* history: requests that left the rate limiter with None, per minute key
    passedHour    \* history: the same per hour key

vars == <<now, apikeys, services, cache, logs, req, served, env, loggingOuter,
          passedMin, passedHour>>

\* ------------------------------------------------------------ values
NoKey == "<none>"
NoExc == "<none>"
NoTime == -1

\* A header value.  present = FALSE is headers.get(...) returning None; a
\* present value is the string ("Bearer " if bearer) + val.
Hdr(b, v) == [present |-> TRUE, bearer |-> b, val |-> v]
NoHdr == [present |-> FALSE, bearer |-> FALSE, val |-> ""]

\* Python truthiness of a header value: None and "" are falsy.
Truthy(h) == h.present /\ (h.bearer \/ h.val # "")

\* A response: status code and the fields of the JSON body.  A message is the
\* sequence of the fragments it is formatted from.
NoResp == [status |-> 0, error |-> "", message |-> <<>>, retry_after |-> 0]
JsonResponse(st, err, msg, ra) ==
    [status |-> st, error |-> err, message |-> msg, retry_after |-> ra]

\* An empty dict.
EmptyDict == [x \in {} |-> 0]
DictGet(d, k, default) == IF k \in DOMAIN d THEN d[k] ELSE default

DictSet(d, k, v) == [x \in DOMAIN d \cup {k} |-> IF x = k THEN v ELSE d[x]]

\* str.lower() on the header names that occur.
Lower(k) ==
    CASE k = "Authorization" -> "authorization"
      [] k = "X-Api-Key" -> "x-api-key"
      [] k = "Cookie" -> "cookie"
      [] k = "Host" -> "host"
      [] k = "Content-Length" -> "content-length"
      [] k = "Transfer-Encoding" -> "transfer-encoding"
      [] k = "Content-Type" -> "content-type"
      [] k = "Content-Encoding" -> "content-encoding"
      [] k = "Connection" -> "connection"
      [] k = "Keep-Alive" -> "keep-alive"
      [] k = "Accept" -> "accept"
      [] k = "User-Agent" -> "user-agent"
      [] k = "Location" -> "location"
      [] k = "Set-Cookie" -> "set-cookie"
      [] k = "X-Request-Id" -> "x-request-id"
      [] k = "X-Forwarded-For" -> "x-forwarded-for"
      [] k = "X-Forwarded-Proto" -> "x-forwarded-proto"
      [] k = "X-Forwarded-Host" -> "x-forwarded-host"
      [] OTHER -> k

\* A request body: its length in characters and whether json.loads accepts it.
Body(n, parses) == [len |-> n, json |-> parses]
NoBody == [len |-> 0, json |-> FALSE]

\* The keyword arguments of self.session.request (proxy.py lines 45-65).
NoSent ==
    [method |-> "", url |-> <<>>, headers |-> EmptyDict, timeout |-> 0,
     body_kind |-> "none", body |-> NoBody, params |-> {}, allow_redirects |-> FALSE]

\* A downstream response as requests hands it over.
NoDown == [status |-> 0, headers |-> EmptyDict, body |-> ""]

\* ------------------------------------------------------------ tables
\* APIKey rows (models.py).  "k1" is an active credential, "k2" an inactive one.
KeyNames == {"k1", "k2"}
APIKeyRow(act, rpm, rph) ==
    [is_active |-> act, requests_per_minute |-> rpm,
     requests_per_hour |-> rph, last_used |-> NoTime]

\* ServiceConfig rows (models.py).  A URL or path string is the sequence of its
\* pieces, with every "/" that matters to the code a piece of its own.
ServiceRow(url, act, healthy) ==
    [base_url |-> url, timeout |-> DefaultTimeout, is_active |-> act,
     health_check_path |-> "/health", last_health_check |-> NoTime,
     is_healthy |-> healthy]
InitServices ==
    [n \in {"echo", "sick", "off", "custom"} |->
        CASE n = "echo" -> ServiceRow(<<"http://echo">>, TRUE, TRUE)
          [] n = "sick" -> ServiceRow(<<"http://sick">>, TRUE, FALSE)
          [] n = "off"  -> ServiceRow(<<"http://off">>, FALSE, TRUE)
          [] n = "custom" -> [ServiceRow(<<"http://custom", "/">>, TRUE, TRUE)
                                EXCEPT !.health_check_path = "/healthz"]]

\* settings.DOWNSTREAM_SERVICES, the fallback of get_service_config.
DOWNSTREAM_SERVICES ==
    [n \in {"legacy", "off"} |->
        [base_url |-> IF n = "legacy" THEN <<"http://legacy", "/">> ELSE <<"http://off-fallback">>,
         timeout |-> DefaultTimeout]]

\* ------------------------------------------------------------ requests
\* A path is the tuple of its segments: /api/proxy/echo/ping is
\* <<"api", "proxy", "echo", "ping">>.
ProxyPath(svc) == <<"api", "proxy", svc, "ping">>
StatusPath == <<"api", "services", "status">>
HealthPath == <<"health">>
AdminPath == <<"admin", "gateway">>
KeysPath == <<"api", "keys">>
KeyPath(key_id) == <<"api", "keys", key_id>>
StatsPath == <<"api", "stats">>
LogsPath == <<"api", "logs">>
ServiceHealthPath(svc) == <<"api", "health", svc>>
ServiceAdminPath(svc) == <<"admin", "gateway", "serviceconfig", svc, "change">>

\* request.path.startswith('/admin/') or request.path.startswith('/health/')
\* (the variant exempts the admin prefix only)
IsExempt_Mut(path) == Len(path) >= 1 /\ path[1] = "admin"
IsExempt(path) == Len(path) >= 1 /\ path[1] \in {"admin", "health"}

\* URL resolution (gateway/urls.py mounted under /api/, health_urls.py under /health/).
Route(path) ==
    IF Len(path) >= 3 /\ path[1] = "api" /\ path[2] = "proxy" THEN "proxy"
    ELSE IF path = StatusPath THEN "status"
    ELSE IF path = HealthPath THEN "health"
    ELSE IF Len(path) = 3 /\ path[1] = "api" /\ path[2] = "health" THEN "service_health"
    ELSE IF path \in {KeysPath, StatsPath, LogsPath} THEN "manage"
    ELSE IF Len(path) = 3 /\ SubSeq(path, 1, 2) = KeysPath THEN "manage"
    ELSE IF Len(path) >= 1 /\ path[1] = "admin" THEN "admin"
    ELSE "other"

\* utils.get_client_ip
get_client_ip(r) == IF Truthy(r.xff) THEN r.xff.val ELSE r.remote

NoKeyObj == [key |-> NoKey, requests_per_minute |-> 0, requests_per_hour |-> 0]

IdleReq ==
    [pc |-> "idle", method |-> "GET", path |-> <<>>, xkey |-> NoHdr, authz |-> NoHdr,
     remote |-> "", xff |-> NoHdr,
     api_key |-> NoKeyObj, log_data |-> FALSE,
     minute_idx |-> 0, minute_count |-> 0, hour_idx |-> 0, hour_count |-> 0,
     resp |-> NoResp, exc |-> NoExc, outcome |-> "none",
     target_url |-> <<>>, service_name |-> "", downstream_url |-> <<>>,
     logged |-> 0, sinkFailed |-> FALSE, called |-> FALSE,
     wroteCounter |-> FALSE, touchedKey |-> FALSE, updateFailed |-> FALSE,
     extra |-> EmptyDict, content_type |-> "", body |-> NoBody, query |-> <<>>,
     logged_body |-> 0, sent |-> NoSent, down |-> NoDown, resp_headers |-> EmptyDict,
     probed |-> {}]

\* The requests a client may send: path, credential headers, addresses.
Input(p, xk, az, ra, xf) ==
    [method |-> "GET", path |-> p, xkey |-> xk, authz |-> az, remote |-> ra, xff |-> xf,
     extra |-> EmptyDict, content_type |-> "", body |-> NoBody, query |-> <<>>]
InputM(m, p, xk, az, ra, xf) == [Input(p, xk, az, ra, xf) EXCEPT !.method = m]
\* A proxied request from 10.0.0.1 with X-API-Key k1, other headers, a body
\* and a query string (the sequence of its <<name, value>> pairs).
InputF(m, p, xf, hs, ct, b, q) ==
    [InputM(m, p, Hdr(FALSE, "k1"), NoHdr, "10.0.0.1", xf) EXCEPT
        !.extra = hs, !.content_type = ct, !.body = b, !.query = q]
\* A header dict from <<name, value>> pairs.
Headers(pairs) ==
    [k \in {pr[1] : pr \in pairs} |-> Hdr(FALSE, (CHOOSE pr \in pairs : pr[1] = k)[2])]
CredentialHeaders ==
    { <<NoHdr, NoHdr>>,
      <<Hdr(FALSE, "k1"), NoHdr>>,
      <<NoHdr, Hdr(TRUE, "k1")>>,
      <<Hdr(FALSE, "k2"), NoHdr>>,
      <<Hdr(FALSE, "zz"), NoHdr>> }
Inputs ==
    { Input(ProxyPath("echo"), h[1], h[2], "10.0.0.1", NoHdr) : h \in CredentialHeaders }
    \cup { Input(ProxyPath("echo"), Hdr(FALSE, "k1"), NoHdr, "10.0.0.1", Hdr(FALSE, "10.0.0.2")) }
    \cup { Input(ProxyPath(s), Hdr(FALSE, "k1"), NoHdr, "10.0.0.1", NoHdr) :
             s \in {"sick", "nosuch"} }
    \cup { Input(StatusPath, Hdr(FALSE, "k1"), NoHdr, "10.0.0.1", NoHdr) }
    \cup { Input(HealthPath, NoHdr, NoHdr, "10.0.0.1", NoHdr) }
RateInputs ==
    { Input(ProxyPath("echo"), Hdr(FALSE, "k1"), NoHdr, "10.0.0.1", xf) :
        xf \in {NoHdr, Hdr(FALSE, "10.0.0.2")} }

\* Requests to the exempt prefixes and to the management routes, with and
\* without a credential header, and one proxied request.
RouteInputs ==
    { Input(p, xk, NoHdr, "10.0.0.1", NoHdr) :
        p \in {HealthPath, AdminPath}, xk \in {NoHdr, Hdr(FALSE, "k1"), Hdr(FALSE, "zz")} }
    \cup { InputM("POST", KeysPath, xk, NoHdr, "10.0.0.1", NoHdr) : xk \in {NoHdr, Hdr(FALSE, "k1")} }
    \cup { InputM("DELETE", KeyPath(k), Hdr(FALSE, "k1"), NoHdr, "10.0.0.1", NoHdr) : k \in {"k1", "zz"} }
    \cup { Input(p, NoHdr, NoHdr, "10.0.0.1", NoHdr) : p \in {KeysPath, StatsPath, LogsPath} }
    \cup { Input(StatsPath, Hdr(FALSE, "k1"), NoHdr, "10.0.0.1", NoHdr) }
    \cup { Input(ProxyPath("echo"), Hdr(FALSE, "k1"), NoHdr, "10.0.0.1", NoHdr) }

\* Authenticated requests that can be in flight while the credential they
\* carry is deleted: a proxied one, one to the status view, and the deletion.
ManageInputs ==
    { Input(p, Hdr(FALSE, "k1"), NoHdr, "10.0.0.1", NoHdr) : p \in {ProxyPath("echo"), StatusPath} }
    \cup { InputM("DELETE", KeyPath("k1"), Hdr(FALSE, "k1"), NoHdr, "10.0.0.1", NoHdr) }

\* Proxied requests of every shape the forwarder distinguishes: methods with
\* and without a body, content types, bodies that parse as JSON or not and
\* that are longer than the log limit, query strings, sensitive and other
\* headers, base URLs with and without a trailing slash, remaining paths that
\* are empty or start with a slash.
BrowserHeaders == Headers({<<"Host", "gw.example">>, <<"Accept", "*/*">>, <<"Cookie", "sid=1">>})
JsonHeaders ==
    Headers({<<"Host", "gw.example">>, <<"Content-Type", "application/json">>,
             <<"Content-Length", "n">>})
FormHeaders ==
    Headers({<<"Content-Type", "application/x-www-form-urlencoded">>, <<"User-Agent", "curl">>})
TextHeaders ==
    Headers({<<"Content-Type", "text/plain">>, <<"Transfer-Encoding", "chunked">>})
ForwardInputs ==
    { InputF("GET", ProxyPath("echo"), NoHdr, BrowserHeaders, "", NoBody, <<<<"a", "1">>>>),
      InputF("GET", ProxyPath("echo"), NoHdr, BrowserHeaders, "", NoBody,
             <<<<"a", "1">>, <<"b", "2">>, <<"a", "3">>>>),
      InputF("GET", ProxyPath("echo"), Hdr(FALSE, "10.0.0.2"), BrowserHeaders, "", NoBody, <<>>),
      InputF("POST", ProxyPath("echo"), NoHdr, JsonHeaders, "application/json", Body(5, TRUE), <<>>),
      InputF("POST", ProxyPath("echo"), NoHdr, JsonHeaders, "application/json", Body(5, FALSE),
             <<<<"a", "1">>>>),
      InputF("POST", ProxyPath("echo"), NoHdr, JsonHeaders, "application/json",
             Body(BodyLogLimit + 1, TRUE), <<>>),
      InputF("POST", ProxyPath("echo"), NoHdr, FormHeaders, "application/x-www-form-urlencoded",
             Body(BodyLogLimit + 1, FALSE), <<>>),
      InputF("PUT", ProxyPath("echo"), NoHdr, TextHeaders, "text/plain",
             Body(BodyLogLimit + 1, FALSE), <<>>),
      InputF("PATCH", ProxyPath("echo"), NoHdr, TextHeaders, "text/plain",
             Body(BodyLogLimit, FALSE), <<>>),
      InputF("DELETE", ProxyPath("echo"), NoHdr, JsonHeaders, "application/json", Body(5, TRUE), <<>>),
      InputF("GET", <<"api", "proxy", "legacy">>, NoHdr, EmptyDict, "", NoBody, <<>>),
      InputF("GET", ProxyPath("legacy"), NoHdr, EmptyDict, "", NoBody, <<>>),
      InputF("GET", ProxyPath("custom"), NoHdr, EmptyDict, "", NoBody, <<>>),
      InputF("GET", <<"api", "proxy", "custom", "/", "x">>, NoHdr, EmptyDict, "", NoBody, <<>>),
      InputF("GET", <<"api", "proxy", "legacy", "/", "x">>, NoHdr, EmptyDict, "", NoBody, <<>>),
      InputF("GET", <<"api", "proxy", "echo">>, NoHdr, EmptyDict, "", NoBody, <<>>) }

\* Probes of a service of every kind (default and other health_check_path,
\* unhealthy, inactive, settings only, unknown), the status route, a proxied
\* request to the unhealthy service and a change of that service in the admin.
ProbeInputs ==
    { Input(ServiceHealthPath(s), Hdr(FALSE, "k1"), NoHdr, "10.0.0.1", NoHdr) :
        s \in {"echo", "sick", "custom", "off", "legacy", "nosuch"} }
    \cup { Input(p, Hdr(FALSE, "k1"), NoHdr, "10.0.0.1", NoHdr) : p \in {StatusPath, ProxyPath("sick")} }
    \cup { InputM("POST", ServiceAdminPath("sick"), NoHdr, NoHdr, "10.0.0.1", NoHdr) }

\* Proxied requests with every combination of an X-API-Key header (absent,
\* empty, a stored active secret, an unknown one, an inactive one, with and
\* without "Bearer ") and an Authorization header (absent, a Bearer token that
\* is a stored secret or not, a stored secret without prefix).
AuthInputs ==
    { Input(ProxyPath("echo"), xk, az, "10.0.0.1", NoHdr) :
        xk \in {NoHdr, Hdr(FALSE, ""), Hdr(FALSE, "k1"), Hdr(FALSE, "zz"), Hdr(FALSE, "k2"),
                Hdr(TRUE, "k1"), Hdr(TRUE, "zz"), Hdr(TRUE, "")},
        az \in {NoHdr, Hdr(TRUE, "k1"), Hdr(TRUE, "zz"), Hdr(FALSE, "k1")} }

\* Requests under two credentials and, for one of them, from two client
\* addresses.
ScopeInputs ==
    { Input(ProxyPath("echo"), Hdr(FALSE, "k1"), NoHdr, "10.0.0.1", NoHdr),
      Input(ProxyPath("echo"), Hdr(FALSE, "k1"), NoHdr, "10.0.0.2", NoHdr),
      Input(ProxyPath("echo"), Hdr(FALSE, "k2"), NoHdr, "10.0.0.1", NoHdr) }

\* Authenticated proxy requests, one per way a service name can resolve: active
\* and healthy, active and unhealthy, inactive with a settings entry, settings
\* entry only, found nowhere.
ResolveInputs ==
    { Input(ProxyPath(s), Hdr(FALSE, "k1"), NoHdr, "10.0.0.1", NoHdr) :
        s \in {"echo", "sick", "off", "legacy", "nosuch"} }

\* What self.session.request(...) can do: answer with a status, or raise.
\* An exception is named by its class.
PlainResponseHeaders == [k \in {"Content-Type"} |-> Hdr(FALSE, "application/json")]
AnswersWith(st, hs, b) == [raises |-> NoExc, status |-> st, headers |-> hs, body |-> b]
Answers(st) == AnswersWith(st, PlainResponseHeaders, "downstream body")
Raises(e) == [raises |-> e, status |-> 0, headers |-> EmptyDict, body |-> ""]
DownstreamStatuses == {200, 404}
\* Downstream responses of every status class, with headers the forwarder
\* copies and headers it leaves out, in both spellings.
ForwardOutcomes ==
    { AnswersWith(200, Headers({<<"Content-Type", "text/html">>, <<"Set-Cookie", "t=1">>,
                                <<"Content-Length", "4">>, <<"Connection", "close">>}), "page"),
      AnswersWith(302, Headers({<<"Location", "/next">>, <<"Keep-Alive", "5">>}), ""),
      AnswersWith(404, Headers({<<"content-encoding", "gzip">>, <<"x-request-id", "r1">>}), "missing"),
      AnswersWith(500, PlainResponseHeaders, "boom"),
      Raises("ReadTimeout") }
\* What self.session.get(health_url, timeout=5) can do.
ProbeOutcomes == {Answers(200), Answers(500), Raises("ConnectionError")}
DownstreamExceptions == {"ReadTimeout", "ConnectTimeout", "ConnectionError", "InvalidSchema", "ValueError"}
\* (the variant is a downstream call that neither answers nor fails)
DownstreamOutcomes_Hang == {}
DownstreamOutcomes ==
    {Answers(st) : st \in DownstreamStatuses} \cup {Raises(e) : e \in DownstreamExceptions}

\* ------------------------------------------------------- surroundings
\* Everything a client, a downstream service or the log table can do.
FullEnv ==
    [workers |-> {"w1"}, maxRequests |-> MaxRequests, inputs |-> Inputs,
     downstream |-> DownstreamOutcomes, probes |-> {Answers(200)},
     prepareFaults |-> {NoExc, "DisallowedHost"},
     viewFaults |-> {NoExc, "OperationalError"},
     updateFaults |-> {NoExc, "OperationalError"},
     sinkOutcomes |-> {TRUE, FALSE}]

\* Authenticated requests to a healthy service that answers 200, from two
\* client addresses; nothing fails.
RateEnv(ws) ==
    [workers |-> ws, maxRequests |-> RateRequests, inputs |-> RateInputs,
     downstream |-> {Answers(200)}, probes |-> {Answers(200)},
     prepareFaults |-> {NoExc}, viewFaults |-> {NoExc},
     updateFaults |-> {NoExc}, sinkOutcomes |-> {TRUE}]

\* Authenticated proxy requests to every kind of service; the downstream
\* service answers 200 or refuses the connection.
ResolveEnv ==
    [workers |-> {"w1"}, maxRequests |-> MaxRequests, inputs |-> ResolveInputs,
     downstream |-> {Answers(200), Raises("ConnectionError")}, probes |-> {Answers(200)},
     prepareFaults |-> {NoExc}, viewFaults |-> {NoExc}, updateFaults |-> {NoExc},
     sinkOutcomes |-> {TRUE}]

\* Requests to every route but the status route; views and the last_used
\* save can fail, the log table accepts every insert.
RoutesEnv ==
    [workers |-> {"w1"}, maxRequests |-> MaxRequests, inputs |-> RouteInputs,
     downstream |-> {Answers(200)}, probes |-> {Answers(200)}, prepareFaults |-> {NoExc},
     viewFaults |-> {NoExc, "OperationalError"},
     updateFaults |-> {NoExc, "OperationalError"}, sinkOutcomes |-> {TRUE}]

\* Concurrent requests under one credential that one of them may delete; the
\* downstream service answers or times out, views and log inserts can fail.
ManageEnv ==
    [workers |-> Workers, maxRequests |-> ManageRequests, inputs |-> ManageInputs,
     downstream |-> {Answers(200), Raises("ReadTimeout")}, probes |-> {Answers(200)},
     prepareFaults |-> {NoExc},
     viewFaults |-> {NoExc, "OperationalError"},
     updateFaults |-> {NoExc}, sinkOutcomes |-> {TRUE, FALSE}]

\* Every kind of request and of failure, as in FullEnv.
LiveEnv == [FullEnv EXCEPT !.maxRequests = LiveRequests]

\* Proxied requests of every shape; the downstream service answers with
\* every class of status or times out.
ForwardEnv ==
    [workers |-> {"w1"}, maxRequests |-> ForwardRequests, inputs |-> ForwardInputs,
     downstream |-> ForwardOutcomes, probes |-> {Answers(200)},
     prepareFaults |-> {NoExc}, viewFaults |-> {NoExc},
     updateFaults |-> {NoExc}, sinkOutcomes |-> {TRUE}]

\* Probes of every kind of service, the status route, proxied requests to the
\* unhealthy service and changes of its flag in the admin site; a probed
\* service answers 200, answers 500 or refuses the connection.
ProbeEnv ==
    [workers |-> {"w1"}, maxRequests |-> ProbeRequests, inputs |-> ProbeInputs,
     downstream |-> {Answers(200)}, probes |-> ProbeOutcomes,
     prepareFaults |-> {NoExc}, viewFaults |-> {NoExc},
     updateFaults |-> {NoExc}, sinkOutcomes |-> {TRUE}]

\* Requests under two active credentials to a healthy service that answers
\* 200; nothing fails.
ScopeEnv == [RateEnv({"w1"}) EXCEPT !.maxRequests = ScopeRequests, !.inputs = ScopeInputs]

\* Proxied requests with every combination of credential headers; nothing fails.
AuthEnv == [RateEnv({"w1"}) EXCEPT !.maxRequests = AuthRequests, !.inputs = AuthInputs]

\* --------------------------------------------------------------- Init
InitWith(e, quotas) ==
    /\ env = e
    /\ now = StartTime
    /\ \E q \in quotas :
         apikeys = [k \in KeyNames |->
                      IF k = "k1" THEN APIKeyRow(TRUE, q[1], q[2])
                                  ELSE APIKeyRow(FALSE, q[1], q[2])]
    /\ services = InitServices
    /\ cache = EmptyDict
    /\ logs = EmptyBag
    /\ req = [w \in Workers |-> IdleReq]
    /\ served = 0
    /\ loggingOuter \in BOOLEAN
    /\ passedMin = EmptyDict
    /\ passedHour = EmptyDict

Init == InitWith(FullEnv, PipelineQuotas)
InitRateSeq == InitWith(RateEnv({"w1"}), MinuteQuotas \X HourQuotas)
InitRateConc == InitWith(RateEnv(Workers), MinuteQuotas \X HourQuotas)
InitResolve == InitWith(ResolveEnv, PipelineQuotas)
InitRoutes == InitWith(RoutesEnv, PipelineQuotas)
InitManage == InitWith(ManageEnv, {<<2, 2>>})
InitLive == InitWith(LiveEnv, LiveQuotas)
InitForward == InitWith(ForwardEnv, {<<2, 2>>})
InitProbe == InitWith(ProbeEnv, {<<2, 2>>})
InitAuth == InitWith(AuthEnv, {<<2, 2>>})
\* Both credentials are active and have the same quotas.
InitScope ==
    /\ env = ScopeEnv
    /\ now = StartTime
    /\ \E q \in MinuteQuotas \X HourQuotas :
         apikeys = [k \in KeyNames |-> APIKeyRow(TRUE, q[1], q[2])]
    /\ services = InitServices
    /\ cache = EmptyDict
    /\ logs = EmptyBag
    /\ req = [w \in Workers |-> IdleReq]
    /\ served = 0
    /\ loggingOuter \in BOOLEAN
    /\ passedMin = EmptyDict
    /\ passedHour = EmptyDict

\* ------------------------------------------------- middleware chaining
\* MiddlewareMixin.__call__: a hook that returns a response skips every
\* middleware listed after it and the view; the response then passes through
\* process_response of the middleware listed before it.
AfterArrive == IF loggingOuter THEN "log_req" ELSE "auth"
AfterLogRequest == IF loggingOuter THEN "auth" ELSE "view"
AfterRateLimit == IF loggingOuter THEN "view" ELSE "log_req"
\* (the variant lets a request go on to the next stage after a hook has
\* returned a response for it)
AfterShortCircuit_Mut == IF loggingOuter THEN "view" ELSE "log_req"
AfterShortCircuit == IF loggingOuter THEN "log_resp" ELSE "done"

SetReq(w, r) == req' = [req EXCEPT ![w] = r]

\* A client sends a request; a free worker picks it up.
Arrive(w) ==
    /\ req[w].pc \in {"idle", "done"}
    /\ served < env.maxRequests
    /\ \E i \in env.inputs :
         SetReq(w, [IdleReq EXCEPT !.pc = AfterArrive, !.method = i.method,
                                   !.path = i.path, !.xkey = i.xkey,
                                   !.authz = i.authz, !.remote = i.remote,
                                   !.xff = i.xff, !.extra = i.extra,
                                   !.content_type = i.content_type,
                                   !.body = i.body, !.query = i.query])
    /\ served' = served + 1
    /\ UNCHANGED <<now, apikeys, services, cache, logs, env, loggingOuter, passedMin, passedHour>>

\* The clock advances; cache entries whose timeout has passed are gone.
Tick ==
    /\ now + TickStep <= MaxTime
    /\ now' = now + TickStep
    /\ cache' = [k \in {x \in DOMAIN cache : cache[x].exp > now'} |-> cache[k]]
    /\ UNCHANGED <<apikeys, services, logs, req, served, env, loggingOuter, passedMin, passedHour>>

\* ------------------------------------------ APIAuthenticationMiddleware
\* request.headers.get('X-API-Key') or request.headers.get('Authorization')
\* (the variant prefers the Authorization header)
SelectedHeader_Mut(r) == IF Truthy(r.authz) THEN r.authz ELSE r.xkey
SelectedHeader(r) == IF Truthy(r.xkey) THEN r.xkey ELSE r.authz

\* if api_key and api_key.startswith('Bearer '): api_key = api_key[7:]
StripBearer(h) == IF Truthy(h) /\ h.bearer THEN Hdr(FALSE, h.val) ELSE h

\* if not api_key: (line 28); the variant is the pipeline without this check
CredentialMissing_Mut(api_key) == FALSE
CredentialMissing(api_key) == ~Truthy(api_key)

\* APIKey.objects.get(key=api_key, is_active=True): the matching secrets.
\* (the variant drops the is_active filter)
LookupKey_Mut(h) == {k \in DOMAIN apikeys : ~h.bearer /\ k = h.val}
LookupKey(h) == {k \in DOMAIN apikeys : ~h.bearer /\ k = h.val /\ apikeys[k].is_active}

MissingKeyResponse ==
    JsonResponse(401, "API key required",
                 <<"Please provide a valid API key in the X-API-Key header or Authorization header">>, 0)
InvalidKeyResponse ==
    JsonResponse(401, "Invalid API key", <<"The provided API key is invalid or inactive">>, 0)

\* The response django makes of an exception that leaves a middleware hook.
UncaughtExceptionResponse == JsonResponse(500, "Server Error (500)", <<>>, 0)

\* APIKey.update_last_used: save(update_fields=['last_used']) of one row.
\* (the variant writes the timestamp to every row of the table)
update_last_used_Mut(rows, k, t) == [x \in DOMAIN rows |-> [rows[x] EXCEPT !.last_used = t]]
update_last_used(rows, k, t) == [rows EXCEPT ![k].last_used = t]

AuthProcessRequest(w) ==
    LET r == req[w]
        api_key == StripBearer(SelectedHeader(r))
    IN
    /\ r.pc = "auth"
    /\ IF IsExempt(r.path)
         THEN /\ SetReq(w, [r EXCEPT !.pc = "rl_min"])
              /\ UNCHANGED apikeys
       ELSE IF CredentialMissing(api_key)
         THEN /\ SetReq(w, [r EXCEPT !.pc = AfterShortCircuit, !.resp = MissingKeyResponse])
              /\ UNCHANGED apikeys
       ELSE IF LookupKey(api_key) = {}
         THEN /\ SetReq(w, [r EXCEPT !.pc = AfterShortCircuit, !.resp = InvalidKeyResponse])
              /\ UNCHANGED apikeys
       ELSE \E k \in LookupKey(api_key) : \E fault \in env.updateFaults :
              LET attached == [r EXCEPT !.api_key =
                                   [key |-> k,
                                    requests_per_minute |-> apikeys[k].requests_per_minute,
                                    requests_per_hour |-> apikeys[k].requests_per_hour]]
              IN
              \* api_key_obj.update_last_used(), called inline at line 40
              IF fault = NoExc
                THEN /\ SetReq(w, [attached EXCEPT !.pc = "rl_min", !.touchedKey = TRUE])
                     /\ apikeys' = update_last_used(apikeys, k, now)
                \* save() raised: only APIKey.DoesNotExist is caught (line 42), the
                \* exception leaves the middleware and django answers 500
                ELSE /\ SetReq(w, [attached EXCEPT !.pc = AfterShortCircuit, !.updateFailed = TRUE,
                                                   !.resp = UncaughtExceptionResponse])
                     /\ UNCHANGED apikeys
    /\ UNCHANGED <<now, services, cache, logs, served, env, loggingOuter, passedMin, passedHour>>

\* -------------------------------------------------- RateLimitMiddleware
\* cache.get(key, default) and cache.set(key, value, timeout)
CacheGet(k, default) ==
    IF k \in DOMAIN cache /\ cache[k].exp > now THEN cache[k].val ELSE default
\* (the variant of cache.set writes the value under every key of the same
\* window, whatever its credential and address)
CacheSet_Mut(k, v, timeout) ==
    [x \in DOMAIN cache \cup {k} |->
        IF x[3] = k[3] /\ x[4] = k[4] THEN [val |-> v, exp |-> now + timeout] ELSE cache[x]]
CacheSet(k, v, timeout) ==
    [x \in DOMAIN cache \cup {k} |->
        IF x = k THEN [val |-> v, exp |-> now + timeout] ELSE cache[x]]

\* f"rate_limit:{api_key.key}:{client_ip}:minute:{int(time.time() // 60)}"
MinuteKey(r, idx) == <<r.api_key.key, get_client_ip(r), "minute", idx>>
HourKey(r, idx) == <<r.api_key.key, get_client_ip(r), "hour", idx>>
\* (the variant of the minute index changes once an hour)
MinuteIndex_Mut(t) == t \div HourWindow
MinuteIndex(t) == t \div MinuteWindow
HourIndex(t) == t \div HourWindow

\* minute_count >= api_key.requests_per_minute, hour_count >= api_key.requests_per_hour
\* (the variant with > in place of >= admits one request too many)
MinuteLimitReached_Mut(count, api_key) == count > api_key.requests_per_minute
MinuteLimitReached(count, api_key) == count >= api_key.requests_per_minute
HourLimitReached(count, api_key) == count >= api_key.requests_per_hour

MinuteLimitResponse(api_key) ==
    JsonResponse(429, "Rate limit exceeded",
                 <<"Rate limit exceeded: ", ToString(api_key.requests_per_minute),
                   " requests per minute">>, MinuteRetryAfter)
HourLimitResponse(api_key) ==
    JsonResponse(429, "Rate limit exceeded",
                 <<"Rate limit exceeded: ", ToString(api_key.requests_per_hour),
                   " requests per hour">>, HourRetryAfter)

Bump(f, k) == [x \in DOMAIN f \cup {k} |-> IF x = k THEN DictGet(f, k, 0) + 1 ELSE f[x]]

\* Lines 54-74: the early returns, then the read and check of the minute counter.
RateLimitMinute(w) ==
    LET r == req[w]
        idx == MinuteIndex(now)
        minute_count == CacheGet(MinuteKey(r, idx), 0)
    IN
    /\ r.pc = "rl_min"
    /\ IF IsExempt(r.path) \/ r.api_key.key = NoKey
         THEN SetReq(w, [r EXCEPT !.pc = AfterRateLimit])
       ELSE IF MinuteLimitReached(minute_count, r.api_key)
         THEN SetReq(w, [r EXCEPT !.pc = AfterShortCircuit,
                                  !.resp = MinuteLimitResponse(r.api_key)])
       ELSE SetReq(w, [r EXCEPT !.pc = "rl_hour", !.minute_idx = idx,
                                !.minute_count = minute_count])
    /\ UNCHANGED <<now, apikeys, services, cache, logs, served, env, loggingOuter, passedMin, passedHour>>

\* Lines 76-85: the read and check of the hour counter.
\* (the variant has the minute counter written before the hour check)
RateLimitHour_Mut(w) ==
    LET r == req[w]
        idx == HourIndex(now)
        hour_count == CacheGet(HourKey(r, idx), 0)
    IN
    /\ r.pc = "rl_hour"
    /\ cache' = CacheSet(MinuteKey(r, r.minute_idx), r.minute_count + 1, MinuteTimeout)
    /\ IF HourLimitReached(hour_count, r.api_key)
         THEN SetReq(w, [r EXCEPT !.pc = AfterShortCircuit,
                                  !.resp = HourLimitResponse(r.api_key),
                                  !.minute_idx = 0, !.minute_count = 0])
       ELSE SetReq(w, [r EXCEPT !.pc = "rl_set_min", !.hour_idx = idx,
                                !.hour_count = hour_count])
    /\ UNCHANGED <<now, apikeys, services, logs, served, env, loggingOuter, passedMin, passedHour>>
RateLimitHour(w) ==
    LET r == req[w]
        idx == HourIndex(now)
        hour_count == CacheGet(HourKey(r, idx), 0)
    IN
    /\ r.pc = "rl_hour"
    /\ IF HourLimitReached(hour_count, r.api_key)
         THEN SetReq(w, [r EXCEPT !.pc = AfterShortCircuit,
                                  !.resp = HourLimitResponse(r.api_key),
                                  !.minute_idx = 0, !.minute_count = 0])
       ELSE SetReq(w, [r EXCEPT !.pc = "rl_set_min", !.hour_idx = idx,
                                !.hour_count = hour_count])
    /\ UNCHANGED <<now, apikeys, services, cache, logs, served, env, loggingOuter, passedMin, passedHour>>

\* Line 88: cache.set(minute_key, minute_count + 1, 60)
RateLimitSetMinute(w) ==
    LET r == req[w] IN
    /\ r.pc = "rl_set_min"
    /\ cache' = CacheSet(MinuteKey(r, r.minute_idx), r.minute_count + 1, MinuteTimeout)
    /\ SetReq(w, [r EXCEPT !.pc = "rl_set_hour", !.wroteCounter = TRUE])
    /\ UNCHANGED <<now, apikeys, services, logs, served, env, loggingOuter, passedMin, passedHour>>

\* Lines 89-91: cache.set(hour_key, hour_count + 1, 3600); return None
RateLimitSetHour(w) ==
    LET r == req[w] IN
    /\ r.pc = "rl_set_hour"
    /\ cache' = CacheSet(HourKey(r, r.hour_idx), r.hour_count + 1, HourTimeout)
    /\ passedMin' = Bump(passedMin, MinuteKey(r, r.minute_idx))
    /\ passedHour' = Bump(passedHour, HourKey(r, r.hour_idx))
    /\ SetReq(w, [r EXCEPT !.pc = AfterRateLimit, !.wroteCounter = TRUE,
                           !.minute_idx = 0, !.minute_count = 0,
                           !.hour_idx = 0, !.hour_count = 0])
    /\ UNCHANGED <<now, apikeys, services, logs, served, env, loggingOuter>>

\* ---------------------------------------------- RequestLoggingMiddleware
\* process_request: remember start time and request data.
\* _get_request_body, as the number of characters of the text it returns: the
\* decoded body for application/json (a django request has no .data), the
\* re-encoded form for a form-encoded POST (request.POST is empty for other
\* methods), the first 1000 characters of the decoded body otherwise.
Min(a, b) == IF a <= b THEN a ELSE b
get_request_body(r) ==
    IF r.content_type = "application/json" THEN r.body.len
    ELSE IF r.content_type = "application/x-www-form-urlencoded"
      THEN IF r.method = "POST" THEN r.body.len ELSE 0
    ELSE Min(r.body.len, BodyLogLimit)

LogProcessRequest(w) ==
    LET r == req[w] IN
    /\ r.pc = "log_req"
    /\ IF IsExempt(r.path)
         THEN SetReq(w, [r EXCEPT !.pc = AfterLogRequest])
         ELSE SetReq(w, [r EXCEPT !.pc = AfterLogRequest, !.log_data = TRUE,
                                  !.logged_body = get_request_body(r)])
    /\ UNCHANGED <<now, apikeys, services, cache, logs, served, env, loggingOuter, passedMin, passedHour>>

\* is_error=exception is not None or response.status_code >= 400
\* (the variant looks at the exception only)
IsError_Mut(exception, status_code) == exception # NoExc
IsError_ServerOnly(exception, status_code) == exception # NoExc \/ status_code >= 500
IsError(exception, status_code) == exception # NoExc \/ status_code >= 400

\* The row RequestLog.objects.create(...) inserts (lines 163-176).
LogRow(r, response, exception) ==
    [api_key |-> r.api_key.key,
     path |-> r.path,
     body |-> r.logged_body,
     status_code |-> response.status,
     client_ip |-> get_client_ip(r),
     service_name |-> "",
     downstream_url |-> <<>>,
     error_message |-> exception,
     is_error |-> IsError(exception, response.status)]

\* hasattr(request, 'api_key') at line 162
HasApiKey(r) == r.api_key.key # NoKey

\* (the variant lets a failed insert replace the response by django's 500)
LogRequest_Mut(w, r, response, exception, r2) ==
    IF HasApiKey(r)
      THEN \E ok \in env.sinkOutcomes :
             IF ok /\ r.api_key.key \in DOMAIN apikeys
               THEN /\ logs' = logs (+) SetToBag({LogRow(r, response, exception)})
                    /\ SetReq(w, [r2 EXCEPT !.logged = r.logged + 1])
               ELSE /\ logs' = logs
                    /\ SetReq(w, [r2 EXCEPT !.sinkFailed = TRUE,
                                            !.resp = JsonResponse(500, "Server Error (500)", <<>>, 1)])
      ELSE /\ logs' = logs
           /\ SetReq(w, r2)

\* _log_request: insert one row when the request carries a credential; an
\* insert that fails is caught and only reported to the error log.  r2 is the
\* request as the calling hook leaves it.
LogRequest(w, r, response, exception, r2) ==
    IF HasApiKey(r)
      THEN \E ok \in env.sinkOutcomes :
             IF ok /\ r.api_key.key \in DOMAIN apikeys
               THEN /\ logs' = logs (+) SetToBag({LogRow(r, response, exception)})
                    /\ SetReq(w, [r2 EXCEPT !.logged = r.logged + 1])
               ELSE /\ logs' = logs
                    /\ SetReq(w, [r2 EXCEPT !.sinkFailed = TRUE])
      ELSE /\ logs' = logs
           /\ SetReq(w, r2)

\* hasattr(request, 'start_time') and hasattr(request, 'log_data')
HasLogData(r) == r.log_data

\* process_response (lines 118-130)
LogProcessResponse(w) ==
    LET r == req[w]
        r2 == [r EXCEPT !.pc = "done"]
    IN
    /\ r.pc = "log_resp"
    /\ IF IsExempt(r.path) \/ ~HasLogData(r)
         THEN /\ SetReq(w, r2)
              /\ UNCHANGED logs
         ELSE LogRequest(w, r, r.resp, NoExc, r2)
    /\ UNCHANGED <<now, apikeys, services, cache, served, env, loggingOuter, passedMin, passedHour>>

\* The response django makes of an exception no process_exception hook handled.
ServerErrorResponse == JsonResponse(500, "Server Error (500)", <<>>, 0)

\* str(exception)
ExcText(e) == e

\* process_exception (lines 132-145): log, return None; django then turns the
\* exception into its 500 response, which goes through process_response.
LogProcessException(w) ==
    LET r == req[w]
        r2 == [r EXCEPT !.pc = "log_resp", !.resp = ServerErrorResponse, !.exc = NoExc]
        error_response == JsonResponse(500, "Internal server error", <<ExcText(r.exc)>>, 0)
    IN
    /\ r.pc = "log_exc"
    /\ IF HasLogData(r)
         THEN LogRequest(w, r, error_response, ExcText(r.exc), r2)
         ELSE /\ SetReq(w, r2)
              /\ UNCHANGED logs
    /\ UNCHANGED <<now, apikeys, services, cache, served, env, loggingOuter, passedMin, passedHour>>

\* ------------------------------------------------------------- utils.py
\* get_service_config: the active registry row as a dict, else the settings entry, else {}.
\* (one variant answers a default configuration for a name found nowhere, the
\* other leaves is_healthy out of the dict it makes of a registry row)
get_service_config_Default(service_name) ==
    IF service_name \in DOMAIN services /\ services[service_name].is_active
      THEN [base_url |-> services[service_name].base_url,
            timeout |-> services[service_name].timeout,
            is_healthy |-> services[service_name].is_healthy]
      ELSE DictGet(DOWNSTREAM_SERVICES, service_name,
                   [base_url |-> <<"http://localhost">>, timeout |-> DefaultTimeout])
get_service_config_NoHealth(service_name) ==
    IF service_name \in DOMAIN services /\ services[service_name].is_active
      THEN [base_url |-> services[service_name].base_url,
            timeout |-> services[service_name].timeout]
      ELSE DictGet(DOWNSTREAM_SERVICES, service_name, EmptyDict)
get_service_config(service_name) ==
    IF service_name \in DOMAIN services /\ services[service_name].is_active
      THEN [base_url |-> services[service_name].base_url,
            timeout |-> services[service_name].timeout,
            is_healthy |-> services[service_name].is_healthy]
      ELSE DictGet(DOWNSTREAM_SERVICES, service_name, EmptyDict)

\* build_downstream_url, after the base_url check: strip one trailing "/" of
\* the base, put one "/" before a path that does not start with one (the
\* variant puts one before every path).
StripTrailingSlash(u) == IF Len(u) > 0 /\ u[Len(u)] = "/" THEN SubSeq(u, 1, Len(u) - 1) ELSE u
EnsureLeadingSlash_Mut(p) == <<"/">> \o p
EnsureLeadingSlash(p) == IF Len(p) > 0 /\ p[1] = "/" THEN p ELSE <<"/">> \o p
build_downstream_url(base_url, path) == StripTrailingSlash(base_url) \o EnsureLeadingSlash(path)

\* sanitize_headers: drop the headers whose lower-cased name is sensitive.
sensitive_headers ==
    {"authorization", "x-api-key", "cookie", "host", "content-length", "transfer-encoding"}
sanitize_headers(headers) ==
    [k \in {x \in DOMAIN headers : Lower(x) \notin sensitive_headers} |-> headers[k]]

\* ------------------------------------------------------------- proxy.py
\* dict(request.headers): the credential headers, X-Forwarded-For and the rest.
RequestHeaders(r) ==
    [k \in DOMAIN r.extra
            \cup (IF r.xkey.present THEN {"X-Api-Key"} ELSE {})
            \cup (IF r.authz.present THEN {"Authorization"} ELSE {})
            \cup (IF r.xff.present THEN {"X-Forwarded-For"} ELSE {}) |->
        CASE k = "X-Api-Key" /\ r.xkey.present -> r.xkey
          [] k = "Authorization" /\ r.authz.present -> r.authz
          [] k = "X-Forwarded-For" /\ r.xff.present -> r.xff
          [] OTHER -> r.extra[k]]

\* request.scheme and request.get_host()
Scheme(r) == "http"
GetHost(r) == IF "Host" \in DOMAIN r.extra THEN r.extra["Host"].val ELSE "gateway"

\* Lines 39-42: the sanitized headers with the three X-Forwarded-* entries assigned.
ForwardHeaders(r) ==
    DictSet(DictSet(DictSet(sanitize_headers(RequestHeaders(r)),
                            "X-Forwarded-For", Hdr(FALSE, r.remote)),
                    "X-Forwarded-Proto", Hdr(FALSE, Scheme(r))),
            "X-Forwarded-Host", Hdr(FALSE, GetHost(r)))

\* Lines 53-61: which keyword carries the body, if any.
BodyMethods == {"POST", "PUT", "PATCH"}
BodyKind(r) ==
    IF r.method \notin BodyMethods THEN "none"
    ELSE IF r.content_type = "application/json" /\ r.body.json THEN "json"
    ELSE "data"

\* request.GET.dict(), as the set of its items: one value per name, the last
\* one of the query string.  An empty request.GET sets no params.
QueryDict(q) ==
    {q[i] : i \in {j \in DOMAIN q : \A l \in DOMAIN q : (l > j => q[l][1] # q[j][1])}}

\* Lines 45-65: request_data.
RequestData(r, service_config, target_url) ==
    [method |-> r.method,
     url |-> target_url,
     headers |-> ForwardHeaders(r),
     timeout |-> DictGet(service_config, "timeout", DefaultTimeout),
     body_kind |-> BodyKind(r),
     body |-> IF BodyKind(r) = "none" THEN NoBody ELSE r.body,
     params |-> QueryDict(r.query),
     allow_redirects |-> FALSE]

\* Lines 72-87: the headers of the HttpResponse, by lower-cased name: the
\* content type (application/json when downstream sent none) and every
\* downstream header that is not excluded.
excluded_headers ==
    {"content-encoding", "content-length", "transfer-encoding", "connection", "keep-alive",
     "proxy-authenticate", "proxy-authorization", "te", "trailers", "upgrade"}
HeaderGet(headers, lname, default) ==
    IF \E k \in DOMAIN headers : Lower(k) = lname
      THEN headers[CHOOSE k \in DOMAIN headers : Lower(k) = lname]
      ELSE default
\* (the variant copies no header, it only sets the content type)
ResponseHeaders_Mut(headers) ==
    [n \in {"content-type"} |-> HeaderGet(headers, n, Hdr(FALSE, "application/json"))]
ResponseHeaders(headers) ==
    [n \in {"content-type"}
            \cup {Lower(k) : k \in {x \in DOMAIN headers : Lower(x) \notin excluded_headers}} |->
        HeaderGet(headers, n, Hdr(FALSE, "application/json"))]

\* The classes an exception is an instance of (requests.exceptions hierarchy).
ExcClasses(e) ==
    CASE e = "ReadTimeout"     -> {"Timeout", "RequestException", "Exception"}
      [] e = "ConnectTimeout"  -> {"ConnectionError", "Timeout", "RequestException", "Exception"}
      [] e = "ConnectionError" -> {"ConnectionError", "RequestException", "Exception"}
      [] e = "InvalidSchema"   -> {"RequestException", "Exception"}
      [] OTHER                 -> {"Exception"}

\* The except clauses of proxy_request, in their order (lines 95-121); the
\* variant has the first two clauses swapped.
ProxyExceptionResponse_Mut(e, service_name) ==
    IF "ConnectionError" \in ExcClasses(e)
      THEN JsonResponse(503, "Service unavailable", <<"Unable to connect to ", service_name>>, 0)
    ELSE IF "Timeout" \in ExcClasses(e)
      THEN JsonResponse(504, "Request timeout", <<"Request to ", service_name, " timed out">>, 0)
    ELSE IF "RequestException" \in ExcClasses(e)
      THEN JsonResponse(502, "Proxy error", <<"Error while proxying request to ", service_name>>, 0)
    ELSE JsonResponse(500, "Internal server error", <<"An unexpected error occurred">>, 0)
ProxyExceptionResponse(e, service_name) ==
    IF "Timeout" \in ExcClasses(e)
      THEN JsonResponse(504, "Request timeout", <<"Request to ", service_name, " timed out">>, 0)
    ELSE IF "ConnectionError" \in ExcClasses(e)
      THEN JsonResponse(503, "Service unavailable", <<"Unable to connect to ", service_name>>, 0)
    ELSE IF "RequestException" \in ExcClasses(e)
      THEN JsonResponse(502, "Proxy error", <<"Error while proxying request to ", service_name>>, 0)
    ELSE JsonResponse(500, "Internal server error", <<"An unexpected error occurred">>, 0)

ServiceNotFoundResponse(service_name) ==
    JsonResponse(404, "Service not found", <<"Service \"", service_name, "\" is not configured">>, 0)
ServiceUnhealthyResponse(service_name) ==
    JsonResponse(503, "Service unavailable",
                 <<"Service \"", service_name, "\" is currently unavailable">>, 0)

\* kwargs of the proxy route: ^proxy/(?P<service_name>[^/]+)/(?P<path>.*)$
ServiceNameOf(path) == path[3]
RemainingPath(path) == SubSeq(path, 4, Len(path))

\* proxy_request up to the downstream call (lines 19-68): resolve the service,
\* check it, build URL, headers and body.  Preparing the call can itself fail
\* (request.get_host(), json.loads, ...), which the last except clause catches.
ProxyPrepare(w) ==
    LET r == req[w]
        service_name == ServiceNameOf(r.path)
        service_config == get_service_config(service_name)
        base_url == DictGet(service_config, "base_url", <<>>)
    IN
    /\ r.pc = "view"
    /\ Route(r.path) = "proxy"
    /\ IF DOMAIN service_config = {}
         THEN SetReq(w, [r EXCEPT !.pc = "log_resp", !.resp = ServiceNotFoundResponse(service_name)])
       ELSE IF ~DictGet(service_config, "is_healthy", TRUE)
         THEN SetReq(w, [r EXCEPT !.pc = "log_resp", !.resp = ServiceUnhealthyResponse(service_name)])
       ELSE IF base_url = <<>>
         THEN SetReq(w, [r EXCEPT !.pc = "log_resp", !.outcome = "ValueError",
                                  !.resp = ProxyExceptionResponse("ValueError", service_name)])
       ELSE \E fault \in env.prepareFaults :
              IF fault = NoExc
                THEN LET target_url == build_downstream_url(base_url, RemainingPath(r.path)) IN
                     SetReq(w, [r EXCEPT !.pc = "send",
                                         !.target_url = target_url,
                                         !.sent = RequestData(r, service_config, target_url)])
                ELSE SetReq(w, [r EXCEPT !.pc = "log_resp", !.outcome = fault,
                                         !.resp = ProxyExceptionResponse(fault, service_name)])
    /\ UNCHANGED <<now, apikeys, services, cache, logs, served, env, loggingOuter, passedMin, passedHour>>

\* The downstream call and what proxy_request makes of it (lines 69-121).
ProxySend(w) ==
    LET r == req[w]
        service_name == ServiceNameOf(r.path)
    IN
    /\ r.pc = "send"
    /\ \E o \in env.downstream :
         IF o.raises = NoExc
           THEN SetReq(w, [r EXCEPT !.pc = "log_resp", !.called = TRUE, !.outcome = "response",
                                    !.resp = [status |-> o.status, error |-> "", message |-> <<o.body>>,
                                              retry_after |-> 0],
                                    !.resp_headers = ResponseHeaders(o.headers),
                                    !.down = [status |-> o.status, headers |-> o.headers, body |-> o.body],
                                    !.service_name = service_name,
                                    !.downstream_url = r.target_url])
           ELSE SetReq(w, [r EXCEPT !.pc = "log_resp", !.called = TRUE, !.outcome = o.raises,
                                    !.resp = ProxyExceptionResponse(o.raises, service_name)])
    /\ UNCHANGED <<now, apikeys, services, cache, logs, served, env, loggingOuter, passedMin, passedHour>>

\* ------------------------------------------------------------- views.py
\* A DRF Response with the given status.
ViewResponse(st, err, msg) == [status |-> st, error |-> err, message |-> <<msg>>, retry_after |-> 0]

\* HealthCheckView.get
HealthView(w) ==
    LET r == req[w] IN
    /\ r.pc = "view"
    /\ Route(r.path) = "health"
    /\ SetReq(w, [r EXCEPT !.pc = "log_resp",
                           !.resp = [status |-> 200, error |-> "", message |-> <<"healthy">>,
                                     retry_after |-> 0]])
    /\ UNCHANGED <<now, apikeys, services, cache, logs, served, env, loggingOuter, passedMin, passedHour>>

\* ProxyService.health_check with o what session.get does: the GET it issues
\* (none for a name that resolves to nothing) and the pair it returns.
\* f"Status: {response.status_code}"
StatusText(st) ==
    CASE st = 200 -> "Status: 200"
      [] st = 404 -> "Status: 404"
      [] st = 500 -> "Status: 500"
      [] OTHER    -> "Status: other"
\* No GET was issued.
NoGet == [raises |-> NoExc, status |-> 0, headers |-> EmptyDict, body |-> ""]
\* (the variant takes every answer of the service, whatever its status, as healthy)
health_check_Mut(service_name, o) ==
    LET service_config == get_service_config(service_name) IN
    IF DOMAIN service_config = {}
      THEN [service |-> service_name, url |-> <<>>, timeout |-> 0, healthy |-> FALSE,
            message |-> "Service not configured", called |-> FALSE, got |-> NoGet]
      ELSE [service |-> service_name,
            url |-> service_config.base_url \o <<"/health">>,
            timeout |-> ProbeTimeout,
            healthy |-> o.raises = NoExc,
            message |-> IF o.raises = NoExc THEN StatusText(o.status) ELSE ExcText(o.raises),
            called |-> TRUE, got |-> o]
health_check(service_name, o) ==
    LET service_config == get_service_config(service_name) IN
    IF DOMAIN service_config = {}
      THEN [service |-> service_name, url |-> <<>>, timeout |-> 0, healthy |-> FALSE,
            message |-> "Service not configured", called |-> FALSE, got |-> NoGet]
      ELSE [service |-> service_name,
            url |-> service_config.base_url \o <<"/health">>,
            timeout |-> ProbeTimeout,
            healthy |-> o.raises = NoExc /\ o.status = 200,
            message |-> IF o.raises = NoExc THEN StatusText(o.status) ELSE ExcText(o.raises),
            called |-> TRUE, got |-> o]

\* ServiceHealthView.get: probe the named service and report the result.
\* (the variant stores the result of the probe in the registry row)
ServiceHealthView_Mut(w) ==
    LET r == req[w]
        service_name == r.path[3]
    IN
    /\ r.pc = "view"
    /\ Route(r.path) = "service_health"
    /\ \E o \in env.probes :
         LET result == health_check(service_name, o) IN
         /\ SetReq(w, [r EXCEPT !.pc = "log_resp", !.probed = {result},
                                !.resp = ViewResponse(200, "", "service health")])
         /\ services' = IF service_name \in DOMAIN services
                           THEN [services EXCEPT ![service_name].is_healthy = result.healthy,
                                                 ![service_name].last_health_check = now]
                           ELSE services
    /\ UNCHANGED <<now, apikeys, cache, logs, served, env, loggingOuter, passedMin, passedHour>>
ServiceHealthView(w) ==
    LET r == req[w]
        service_name == r.path[3]
    IN
    /\ r.pc = "view"
    /\ Route(r.path) = "service_health"
    /\ \E o \in env.probes :
         SetReq(w, [r EXCEPT !.pc = "log_resp", !.probed = {health_check(service_name, o)},
                             !.resp = ViewResponse(200, "", "service health")])
    /\ UNCHANGED <<now, apikeys, services, cache, logs, served, env, loggingOuter, passedMin, passedHour>>

\* ServiceConfig.objects.filter(is_active=True)
ActiveServices == {n \in DOMAIN services : services[n].is_active}

\* ServicesStatusView.get probes every active service of the registry.  It has
\* no try/except: it answers 200, or an error of the registry query leaves the
\* view as an unhandled exception.
StatusView(w) ==
    LET r == req[w] IN
    /\ r.pc = "view"
    /\ Route(r.path) = "status"
    /\ \E fault \in env.viewFaults :
         IF fault = NoExc
           THEN \E o \in [ActiveServices -> env.probes] :
                  SetReq(w, [r EXCEPT !.pc = "log_resp",
                                      !.probed = {health_check(n, o[n]) : n \in ActiveServices},
                                      !.resp = [status |-> 200, error |-> "", message |-> <<"services">>,
                                                retry_after |-> 0]])
           ELSE SetReq(w, [r EXCEPT !.pc = "log_exc", !.exc = fault, !.outcome = "raised"])
    /\ UNCHANGED <<now, apikeys, services, cache, logs, served, env, loggingOuter, passedMin, passedHour>>

\* The admin site (django.contrib.admin with the ModelAdmin classes of
\* admin.py): a page, a redirect to the login page, or an unhandled exception.
AdminStatuses == {200, 302}
AdminView(w) ==
    LET r == req[w] IN
    /\ r.pc = "view"
    /\ Route(r.path) = "admin"
    /\ \E fault \in env.viewFaults :
         IF fault = NoExc
           THEN \E st \in AdminStatuses :
                  SetReq(w, [r EXCEPT !.pc = "log_resp",
                                      !.resp = [status |-> st, error |-> "", message |-> <<"admin">>,
                                                retry_after |-> 0]])
           ELSE SetReq(w, [r EXCEPT !.pc = "log_exc", !.exc = fault, !.outcome = "raised"])
    /\ UNCHANGED <<now, apikeys, services, cache, logs, served, env, loggingOuter, passedMin, passedHour>>

\* The change form of ServiceConfigAdmin, the management action that sets
\* is_healthy (last_health_check is a read-only field of the form): it saves
\* the row and redirects, or answers 404 for a row that does not exist.
AdminChangeService(w) ==
    LET r == req[w]
        name == r.path[4]
    IN
    /\ r.pc = "view"
    /\ Route(r.path) = "admin"
    /\ r.method = "POST" /\ Len(r.path) = 5 /\ r.path[3] = "serviceconfig"
    /\ IF name \in DOMAIN services
         THEN \E healthy \in BOOLEAN :
                /\ services' = [services EXCEPT ![name].is_healthy = healthy]
                /\ SetReq(w, [r EXCEPT !.pc = "log_resp",
                                       !.resp = [status |-> 302, error |-> "", message |-> <<"admin">>,
                                                 retry_after |-> 0]])
         ELSE /\ UNCHANGED services
              /\ SetReq(w, [r EXCEPT !.pc = "log_resp",
                                     !.resp = [status |-> 404, error |-> "", message |-> <<"admin">>,
                                               retry_after |-> 0]])
    /\ UNCHANGED <<now, apikeys, cache, logs, served, env, loggingOuter, passedMin, passedHour>>

\* generate_api_key(): the secrets a created credential can get.
FreshKeys == {"k3"}

\* on_delete=models.CASCADE of RequestLog.api_key: the rows that stay.
WithoutKey(rows, k) ==
    LET keep == {row \in BagToSet(rows) : row.api_key # k}
    IN [row \in keep |-> rows[row]]

\* APIStatsView.get, RequestLogsView.get and APIKeyManagementView.get, .post,
\* .delete: each body is inside try/except Exception, which answers 500.
ManagementView(w) ==
    LET r == req[w]
        done(resp) == SetReq(w, [r EXCEPT !.pc = "log_resp", !.resp = resp])
    IN
    /\ r.pc = "view"
    /\ Route(r.path) = "manage"
    /\ \E fault \in env.viewFaults :
         IF r.method = "GET" /\ Len(r.path) = 2
           THEN /\ done(IF fault = NoExc THEN ViewResponse(200, "", "listing")
                                          ELSE ViewResponse(500, "Failed", "listing"))
                /\ UNCHANGED <<apikeys, logs>>
         ELSE IF r.method = "POST" /\ r.path = KeysPath
           THEN \E k \in FreshKeys :
                  IF fault = NoExc /\ k \notin DOMAIN apikeys
                    THEN /\ done(ViewResponse(201, "", "API key created successfully"))
                         /\ apikeys' = [x \in DOMAIN apikeys \cup {k} |->
                                           IF x = k THEN APIKeyRow(TRUE, NewKeyPerMinute, NewKeyPerHour)
                                                    ELSE apikeys[x]]
                         /\ UNCHANGED logs
                    ELSE /\ done(ViewResponse(500, "Failed to create API key", ""))
                         /\ UNCHANGED <<apikeys, logs>>
         ELSE IF r.method = "DELETE" /\ Len(r.path) = 3
           THEN LET key_id == r.path[3] IN
                IF key_id \notin DOMAIN apikeys
                  THEN /\ done(ViewResponse(404, "API key not found", ""))
                       /\ UNCHANGED <<apikeys, logs>>
                ELSE IF fault = NoExc
                  THEN /\ done(ViewResponse(200, "", "API key deleted successfully"))
                       /\ apikeys' = [x \in DOMAIN apikeys \ {key_id} |-> apikeys[x]]
                       /\ logs' = WithoutKey(logs, key_id)
                  ELSE /\ done(ViewResponse(500, "Failed to delete API key", ""))
                       /\ UNCHANGED <<apikeys, logs>>
         ELSE /\ done(ViewResponse(405, "", "Method not allowed"))
              /\ UNCHANGED <<apikeys, logs>>
    /\ UNCHANGED <<now, services, cache, served, env, loggingOuter, passedMin, passedHour>>

\* --------------------------------------------------------------- Next
Next ==
    \/ Tick
    \/ \E w \in env.workers : Arrive(w)
    \/ \E w \in env.workers : AuthProcessRequest(w)
    \/ \E w \in env.workers : RateLimitMinute(w)
    \/ \E w \in env.workers : RateLimitHour(w)
    \/ \E w \in env.workers : RateLimitSetMinute(w)
    \/ \E w \in env.workers : RateLimitSetHour(w)
    \/ \E w \in env.workers : LogProcessRequest(w)
    \/ \E w \in env.workers : ProxyPrepare(w)
    \/ \E w \in env.workers : ProxySend(w)
    \/ \E w \in env.workers : HealthView(w)
    \/ \E w \in env.workers : StatusView(w)
    \/ \E w \in env.workers : LogProcessException(w)
    \/ \E w \in env.workers : LogProcessResponse(w)

\* The steps an authenticated proxy request can take.
NextRate ==
    \/ Tick
    \/ \E w \in env.workers : Arrive(w)
    \/ \E w \in env.workers : AuthProcessRequest(w)
    \/ \E w \in env.workers : RateLimitMinute(w)
    \/ \E w \in env.workers : RateLimitHour(w)
    \/ \E w \in env.workers : RateLimitSetMinute(w)
    \/ \E w \in env.workers : RateLimitSetHour(w)
    \/ \E w \in env.workers : LogProcessRequest(w)
    \/ \E w \in env.workers : ProxyPrepare(w)
    \/ \E w \in env.workers : ProxySend(w)
    \/ \E w \in env.workers : LogProcessResponse(w)

\* The steps of requests to the exempt prefixes, the management routes and
\* the proxy route.
NextRoutes ==
    \/ Tick
    \/ \E w \in env.workers : Arrive(w)
    \/ \E w \in env.workers : AuthProcessRequest(w)
    \/ \E w \in env.workers : RateLimitMinute(w)
    \/ \E w \in env.workers : RateLimitHour(w)
    \/ \E w \in env.workers : RateLimitSetMinute(w)
    \/ \E w \in env.workers : RateLimitSetHour(w)
    \/ \E w \in env.workers : LogProcessRequest(w)
    \/ \E w \in env.workers : ProxyPrepare(w)
    \/ \E w \in env.workers : ProxySend(w)
    \/ \E w \in env.workers : HealthView(w)
    \/ \E w \in env.workers : AdminView(w)
    \/ \E w \in env.workers : ManagementView(w)
    \/ \E w \in env.workers : LogProcessException(w)
    \/ \E w \in env.workers : LogProcessResponse(w)

\* The steps of probes, status requests, proxied requests and changes of a
\* service in the admin site.
NextProbe ==
    \/ Tick
    \/ \E w \in env.workers : Arrive(w)
    \/ \E w \in env.workers : AuthProcessRequest(w)
    \/ \E w \in env.workers : RateLimitMinute(w)
    \/ \E w \in env.workers : RateLimitHour(w)
    \/ \E w \in env.workers : RateLimitSetMinute(w)
    \/ \E w \in env.workers : RateLimitSetHour(w)
    \/ \E w \in env.workers : LogProcessRequest(w)
    \/ \E w \in env.workers : ProxyPrepare(w)
    \/ \E w \in env.workers : ProxySend(w)
    \/ \E w \in env.workers : ServiceHealthView(w)
    \/ \E w \in env.workers : StatusView(w)
    \/ \E w \in env.workers : AdminChangeService(w)
    \/ \E w \in env.workers : LogProcessResponse(w)

\* The steps of proxied, status and management requests.
NextManage ==
    \/ Tick
    \/ \E w \in env.workers : Arrive(w)
    \/ \E w \in env.workers : AuthProcessRequest(w)
    \/ \E w \in env.workers : RateLimitMinute(w)
    \/ \E w \in env.workers : RateLimitHour(w)
    \/ \E w \in env.workers : RateLimitSetMinute(w)
    \/ \E w \in env.workers : RateLimitSetHour(w)
    \/ \E w \in env.workers : LogProcessRequest(w)
    \/ \E w \in env.workers : ProxyPrepare(w)
    \/ \E w \in env.workers : ProxySend(w)
    \/ \E w \in env.workers : StatusView(w)
    \/ \E w \in env.workers : ManagementView(w)
    \/ \E w \in env.workers : LogProcessException(w)
    \/ \E w \in env.workers : LogProcessResponse(w)

\* One request at a time, every kind of request and of failure.
Spec == Init /\ [][Next]_vars
\* One authenticated request at a time.
SpecRateSeq == InitRateSeq /\ [][NextRate]_vars
\* Authenticated requests handled concurrently by all workers.
SpecRateConc == InitRateConc /\ [][NextRate]_vars
\* One authenticated proxy request at a time, to every kind of service.
SpecResolve == InitResolve /\ [][NextRate]_vars
\* One request at a time to the exempt prefixes and the management routes.
SpecRoutes == InitRoutes /\ [][NextRoutes]_vars
\* One proxied request at a time, of every shape, to a service that answers
\* with every class of status.
SpecForward == InitForward /\ [][NextRate]_vars
\* One request at a time: probes, the status route, proxied requests to the
\* unhealthy service, changes of its flag in the admin site.
SpecProbe == InitProbe /\ [][NextProbe]_vars
\* One proxied request at a time, with every combination of credential headers.
SpecAuth == InitAuth /\ [][NextRate]_vars
\* One request at a time, under two credentials and from two addresses.
SpecScope == InitScope /\ [][NextRate]_vars
\* Concurrent requests, one of which may delete the credential of the others.
SpecManage == InitManage /\ [][NextManage]_vars

\* Whatever the worker does next for the request it is handling.
Handle(w) ==
    \/ AuthProcessRequest(w)
    \/ RateLimitMinute(w)
    \/ RateLimitHour(w)
    \/ RateLimitSetMinute(w)
    \/ RateLimitSetHour(w)
    \/ LogProcessRequest(w)
    \/ ProxyPrepare(w)
    \/ ProxySend(w)
    \/ HealthView(w)
    \/ ServiceHealthView(w)
    \/ StatusView(w)
    \/ AdminView(w)
    \/ ManagementView(w)
    \/ LogProcessException(w)
    \/ LogProcessResponse(w)

\* Every kind of request and of failure, with workers that keep running: a
\* worker handling a request goes on with it, and
\* session.request(..., timeout=timeout) answers or raises.
SpecLive == InitLive /\ [][Next]_vars /\ \A w \in Workers : WF_vars(Handle(w))

\* =====================================================================
\* Properties
\* =====================================================================

\* C1: with requests handled one after another, a request reaching the minute
\* check is answered 429 with retry_after = 60 exactly when Q requests were
\* already admitted under its (credential, address, minute) key, and one that
\* passed the minute check is admitted whenever fewer than H requests were
\* admitted under its hour key: the first Q pass, request Q+1 gets 429/60.
C1_MinuteQuota ==
    [][\A w \in Workers :
         LET r == req[w]
             admittedMin == DictGet(passedMin, MinuteKey(r, MinuteIndex(now)), 0)
             admittedHour == DictGet(passedHour, HourKey(r, HourIndex(now)), 0)
         IN
         /\ (r.pc = "rl_min" /\ req'[w].pc # "rl_min" /\ r.api_key.key # NoKey) =>
              IF admittedMin < r.api_key.requests_per_minute
                THEN req'[w].pc = "rl_hour" /\ req'[w].resp = NoResp
                ELSE /\ req'[w].resp.status = 429
                     /\ req'[w].resp.retry_after = 60
                     /\ req'[w].pc \in {"log_resp", "done"}
         /\ (r.pc = "rl_hour" /\ req'[w].pc # "rl_hour"
               /\ admittedHour < r.api_key.requests_per_hour) =>
              req'[w].pc = "rl_set_min" /\ req'[w].resp = NoResp
         /\ (r.pc = "rl_set_hour" /\ req'[w].pc # "rl_set_hour") =>
              req'[w].pc \in {"view", "log_req"} /\ req'[w].resp = NoResp
    ]_vars

\* C1 witness: two requests were admitted under a quota of 2 and a third one
\* has been answered 429 with retry_after = 60.
C1_Witness ==
    \E w \in Workers :
        /\ req[w].pc = "done"
        /\ req[w].resp.status = 429
        /\ req[w].resp.retry_after = 60
        /\ req[w].api_key.requests_per_minute = 2
        /\ \E k \in DOMAIN passedMin : passedMin[k] = 2

\* C2: at most Q requests pass the rate limiter under one
\* (credential, address, minute) key.
C2_AtMostQuotaAdmitted ==
    \A k \in DOMAIN passedMin : passedMin[k] <= apikeys[k[1]].requests_per_minute

\* No request is between reading and writing a counter.
NoCounterUpdateInFlight ==
    \A w \in Workers : req[w].pc \notin {"rl_hour", "rl_set_min", "rl_set_hour"}

\* C3: once the admitted requests have written their counters, the stored
\* minute and hour counters equal the number of requests admitted under them.
C3_NoLostIncrement ==
    NoCounterUpdateInFlight =>
        /\ \A k \in DOMAIN passedMin : k \in DOMAIN cache => cache[k].val = passedMin[k]
        /\ \A k \in DOMAIN passedHour : k \in DOMAIN cache => cache[k].val = passedHour[k]

\* C4: a request reaching the hour check after H requests were admitted under
\* its hour key is answered 429 with retry_after = 3600, and one reaching the
\* minute check with both quotas used up is answered 429 with retry_after = 60.
C4_HourQuota ==
    [][\A w \in Workers :
         LET r == req[w]
             admittedMin == DictGet(passedMin, MinuteKey(r, MinuteIndex(now)), 0)
             admittedHour == DictGet(passedHour, HourKey(r, HourIndex(now)), 0)
         IN
         /\ (r.pc = "rl_hour" /\ req'[w].pc # "rl_hour"
               /\ admittedHour >= r.api_key.requests_per_hour) =>
              /\ req'[w].resp.status = 429
              /\ req'[w].resp.retry_after = 3600
         /\ (r.pc = "rl_min" /\ req'[w].pc # "rl_min" /\ r.api_key.key # NoKey
               /\ admittedMin >= r.api_key.requests_per_minute
               /\ admittedHour >= r.api_key.requests_per_hour) =>
              /\ req'[w].resp.status = 429
              /\ req'[w].resp.retry_after = 60
    ]_vars

\* C5: a request to a non-exempt path with neither an X-API-Key nor an
\* Authorization header never reaches the rate limiter's counters or a
\* downstream service, and its response is the 401 "API key required".
C5_MissingCredential ==
    \A w \in Workers :
        LET r == req[w] IN
        (r.pc # "idle" /\ ~IsExempt(r.path) /\ ~r.xkey.present /\ ~r.authz.present) =>
            /\ ~r.called
            /\ ~r.wroteCounter
            /\ r.pc \in {"log_req", "auth", "log_resp", "done"}
            /\ r.pc \in {"log_resp", "done"} =>
                 /\ r.resp.status = 401
                 /\ r.resp.error = "API key required"

C5_Witness ==
    \E w \in Workers :
        /\ req[w].pc = "done"
        /\ ~IsExempt(req[w].path)
        /\ ~req[w].xkey.present /\ ~req[w].authz.present
        /\ req[w].resp.status = 401
        /\ req[w].resp.error = "API key required"

\* C6: a request presenting a secret that is not stored, or that is stored
\* with is_active = false, gets the 401 "Invalid API key" (not the
\* missing-credential one); no credential is attached to it, no last_used is
\* written for it, it changes no rate counter and reaches no downstream
\* service; the inactive credential's last_used is never written.
C6_InvalidCredential ==
    /\ apikeys["k2"].last_used = NoTime
    /\ \A w \in Workers :
        LET r == req[w]
            presented == IF r.xkey.present /\ r.xkey.val # "" THEN r.xkey ELSE r.authz
        IN
        (/\ r.pc # "idle" /\ ~IsExempt(r.path)
         /\ presented.present /\ presented.val # ""
         /\ \A k \in DOMAIN apikeys : k = presented.val => ~apikeys[k].is_active) =>
            /\ r.api_key = NoKeyObj
            /\ ~r.touchedKey
            /\ ~r.called
            /\ ~r.wroteCounter
            /\ r.pc \in {"log_req", "auth", "log_resp", "done"}
            /\ r.pc \in {"log_resp", "done"} =>
                 /\ r.resp.status = 401
                 /\ r.resp.error = "Invalid API key"
                 /\ r.resp # MissingKeyResponse

C6_Witness ==
    \E w \in Workers :
        /\ req[w].pc = "done"
        /\ req[w].xkey = Hdr(FALSE, "k2")
        /\ req[w].resp.status = 401
        /\ req[w].resp.error = "Invalid API key"
        /\ apikeys["k1"].last_used # NoTime

\* C7: a request on a non-exempt path whose response has been returned has an
\* AuditEntry, whichever stage ended it (the log table accepting the insert).
C7_AlwaysRecorded ==
    \A w \in Workers :
        (req[w].pc = "done" /\ ~IsExempt(req[w].path) /\ ~req[w].sinkFailed) =>
            req[w].logged >= 1

\* C8: no request produces more than one AuditEntry.
C8_AtMostOneEntry ==
    \A w \in Workers : req[w].logged <= 1

\* C9: a proxied request whose downstream call timed out is answered 504, one
\* whose connection failed 503; when the log table accepts the insert, exactly
\* one AuditEntry was created for it, with that status and is_error = true.
C9_TimeoutAndRefused ==
    \A w \in Workers :
        LET r == req[w] IN
        (r.pc = "done" /\ r.outcome \in {"ReadTimeout", "ConnectTimeout", "ConnectionError"}) =>
            /\ r.outcome \in {"ReadTimeout", "ConnectTimeout"} => r.resp.status = 504
            /\ r.outcome = "ConnectionError" => r.resp.status = 503
            /\ r.logged <= 1
            /\ ~r.sinkFailed =>
                 /\ r.logged = 1
                 /\ \E row \in BagToSet(logs) :
                        /\ row.api_key = r.api_key.key
                        /\ row.path = r.path
                        /\ row.status_code = r.resp.status
                        /\ row.is_error
                 /\ \A row \in BagToSet(logs) : row.status_code \in {503, 504} => row.is_error

C9_Witness ==
    \E w \in Workers :
        /\ req[w].pc = "done"
        /\ req[w].outcome = "ReadTimeout"
        /\ req[w].resp.status = 504
        /\ req[w].logged = 1
        /\ \E row \in BagToSet(logs) : row.status_code = 504 /\ row.is_error

\* C10: proxy_request always produces a response, never an exception: 504 for
\* a timeout, 503 for a connection failure, 502 for any other transport error,
\* and for anything else 500 with the fixed message, which does not contain
\* the exception's text.
C10_ProxyErrorMapping ==
    \A w \in Workers :
        LET r == req[w] IN
        (r.pc # "idle" /\ Route(r.path) = "proxy") =>
            /\ r.exc = NoExc
            /\ r.pc # "log_exc"
            /\ (r.pc \in {"log_resp", "done"} /\ r.outcome \notin {"none", "response"}) =>
                 /\ r.outcome \in {"ReadTimeout", "ConnectTimeout"} => r.resp.status = 504
                 /\ r.outcome = "ConnectionError" => r.resp.status = 503
                 /\ r.outcome = "InvalidSchema" => r.resp.status = 502
                 /\ r.outcome \in {"ValueError", "DisallowedHost"} =>
                      /\ r.resp.status = 500
                      /\ r.resp.message = <<"An unexpected error occurred">>
                      /\ \A i \in DOMAIN r.resp.message : r.resp.message[i] # ExcText(r.outcome)
                 /\ r.resp.status \in {500, 502, 503, 504}

C10_Witness ==
    \E w \in Workers :
        /\ req[w].pc = "done"
        /\ req[w].outcome = "ValueError"
        /\ req[w].called
        /\ req[w].resp.status = 500

\* C11: a proxy request that reaches the proxy view and names a service found
\* neither in the ServiceConfig table nor in settings.DOWNSTREAM_SERVICES is
\* answered 404 "Service not found" by the view, and no downstream call is
\* ever prepared or made for it.
C11_UnregisteredService ==
    [][\A w \in Workers :
         LET r == req[w]
             unregistered(q) ==
                 /\ Route(q.path) = "proxy"
                 /\ ServiceNameOf(q.path) \notin DOMAIN services
                 /\ ServiceNameOf(q.path) \notin DOMAIN DOWNSTREAM_SERVICES
         IN
         /\ (r.pc = "view" /\ req'[w].pc # "view" /\ unregistered(r)) =>
              /\ req'[w].pc = "log_resp"
              /\ req'[w].resp.status = 404
              /\ req'[w].resp.error = "Service not found"
         /\ unregistered(req'[w]) =>
              /\ ~req'[w].called
              /\ req'[w].pc # "send"
              /\ req'[w].target_url = <<>>
    ]_vars

C11_Witness ==
    \E w \in Workers :
        /\ req[w].pc = "done"
        /\ req[w].path = ProxyPath("nosuch")
        /\ req[w].resp.status = 404
        /\ ~req[w].called

\* C13: a proxy request that reaches the proxy view and names an active
\* registry service whose is_healthy flag is false is answered 503 by the
\* view, and no downstream call is ever prepared or made for it.
C13_UnhealthyService ==
    [][\A w \in Workers :
         LET r == req[w]
             unhealthy(q) ==
                 /\ Route(q.path) = "proxy"
                 /\ ServiceNameOf(q.path) \in DOMAIN services
                 /\ services[ServiceNameOf(q.path)].is_active
                 /\ ~services[ServiceNameOf(q.path)].is_healthy
         IN
         /\ (r.pc = "view" /\ req'[w].pc # "view" /\ unhealthy(r)) =>
              /\ req'[w].pc = "log_resp"
              /\ req'[w].resp.status = 503
              /\ req'[w].resp.message = <<"Service \"", ServiceNameOf(r.path), "\" is currently unavailable">>
         /\ unhealthy(req'[w]) =>
              /\ ~req'[w].called
              /\ req'[w].pc # "send"
              /\ req'[w].target_url = <<>>
    ]_vars

C13_Witness ==
    \E w \in Workers :
        /\ req[w].pc = "done"
        /\ req[w].path = ProxyPath("sick")
        /\ req[w].resp.status = 503
        /\ ~req[w].called

\* C12: a proxy request that reaches the proxy view and names a service whose
\* ServiceConfig row has is_active = false is answered 404 by the view, and no
\* downstream call is ever prepared or made for it, whether or not
\* settings.DOWNSTREAM_SERVICES has an entry under the same name.
C12_InactiveService ==
    [][\A w \in Workers :
         LET r == req[w]
             inactive(q) ==
                 /\ Route(q.path) = "proxy"
                 /\ ServiceNameOf(q.path) \in DOMAIN services
                 /\ ~services[ServiceNameOf(q.path)].is_active
         IN
         /\ (r.pc = "view" /\ req'[w].pc # "view" /\ inactive(r)) =>
              /\ req'[w].pc = "log_resp"
              /\ req'[w].resp.status = 404
         /\ inactive(req'[w]) =>
              /\ ~req'[w].called
              /\ req'[w].pc # "send"
    ]_vars

\* C14: for every non-exempt request the stages run in order: a rate counter
\* is written for it only after a credential was attached to it; a downstream
\* call is prepared or made for it only after a credential was attached and
\* both of its counters were written; and once the authenticator or the rate
\* limiter has answered it (401, 429, or the 500 of a failed last_used save),
\* the request is only recorded: it is at the recorder or done, no counter is
\* written for it and no downstream call is prepared or made.
C14_StageOrder ==
    \A w \in Workers :
        LET r == req[w]
            authenticated == r.api_key.key # NoKey /\ r.touchedKey
            counting == r.pc \in {"rl_hour", "rl_set_min", "rl_set_hour"} \/ r.wroteCounter
            forwarding == r.pc = "send" \/ r.called \/ r.target_url # <<>>
            failedEarly == \/ r.resp \in {MissingKeyResponse, InvalidKeyResponse}
                           \/ r.resp \in {MinuteLimitResponse(r.api_key), HourLimitResponse(r.api_key)}
                           \/ r.updateFailed
        IN
        (r.pc # "idle" /\ ~IsExempt(r.path)) =>
            /\ counting => authenticated
            /\ forwarding => (authenticated /\ r.wroteCounter /\ r.pc \in {"send", "log_resp", "done"})
            /\ failedEarly =>
                 /\ r.pc \in {"log_resp", "done"}
                 /\ ~r.wroteCounter
                 /\ ~forwarding
                 /\ r.outcome = "none"

C14_Witness ==
    \E w \in Workers :
        /\ req[w].pc = "done"
        /\ req[w].resp = HourLimitResponse(req[w].api_key)
        /\ req[w].api_key.key = "k1"
        /\ ~req[w].wroteCounter
        /\ \E k \in DOMAIN passedHour : passedHour[k] = 1

\* C15: a request whose path starts with /admin/ or /health/, with or without
\* a credential header, is never answered 401 or 429, never gets a credential
\* or log data attached, and no step taken for it changes a rate counter, an
\* APIKey row (last_used) or the RequestLog table.
C15_ExemptBypass ==
    [][\A w \in Workers :
         LET infrastructure(q) == Len(q.path) >= 1 /\ q.path[1] \in {"admin", "health"}
         IN
         /\ (infrastructure(req[w]) /\ req'[w] # req[w]) =>
              /\ cache' = cache
              /\ apikeys' = apikeys
              /\ logs' = logs
              /\ passedMin' = passedMin /\ passedHour' = passedHour
         /\ infrastructure(req'[w]) =>
              /\ req'[w].resp.status \notin {401, 429}
              /\ req'[w].api_key = NoKeyObj
              /\ ~req'[w].log_data
              /\ ~req'[w].touchedKey /\ ~req'[w].wroteCounter /\ ~req'[w].updateFailed
              /\ req'[w].logged = 0 /\ ~req'[w].sinkFailed
              /\ req'[w].pc \notin {"rl_hour", "rl_set_min", "rl_set_hour", "send"}
    ]_vars

C15_Witness ==
    \E w \in Workers :
        /\ req[w].pc = "done"
        /\ req[w].path = HealthPath
        /\ req[w].xkey = Hdr(FALSE, "k1")
        /\ req[w].resp.status = 200
        /\ apikeys["k1"].last_used = NoTime
        /\ logs = EmptyBag
        /\ served = 2

\* C16: a request to a management route (/api/keys/, /api/keys/<id>/,
\* /api/logs/, /api/stats/) that carries no credential header is never
\* answered 401, and the response it ends with is the one its view made
\* (201 for a created credential).
C16_ManagementExempt ==
    \A w \in Workers :
        LET r == req[w] IN
        (r.pc # "idle" /\ Route(r.path) = "manage" /\ ~r.xkey.present /\ ~r.authz.present) =>
            /\ r.resp.status # 401
            /\ r.pc = "done" =>
                 /\ r.resp.status \in {200, 201, 404, 405, 500}
                 /\ (r.method = "POST" /\ r.path = KeysPath /\ r.resp.status # 500) =>
                      r.resp.status = 201

\* C17: whether the insert of the RequestLog row succeeds or fails (the log
\* table refusing it, or the credential having been deleted meanwhile), the
\* recorder hands on the response it was given: process_response leaves the
\* request done with the response unchanged and no exception, and
\* process_exception leaves it with django's 500 for the view's exception.
C17_RecordingFailureHidden ==
    [][\A w \in Workers :
         LET r == req[w] IN
         /\ (r.pc = "log_resp" /\ req'[w].pc # "log_resp") =>
              /\ req'[w].pc = "done"
              /\ req'[w].resp = r.resp
              /\ req'[w].exc = NoExc
         /\ (r.pc = "log_exc" /\ req'[w].pc # "log_exc") =>
              /\ req'[w].pc = "log_resp"
              /\ req'[w].resp = ServerErrorResponse
              /\ req'[w].exc = NoExc
    ]_vars

\* C17 witness: a proxied request answered 200 downstream whose row could not
\* be inserted because its credential was deleted while it was in flight.
C17_Witness ==
    \E w \in Workers :
        /\ req[w].pc = "done"
        /\ req[w].sinkFailed
        /\ req[w].called
        /\ req[w].resp.status = 200
        /\ req[w].api_key.key = "k1"
        /\ "k1" \notin DOMAIN apikeys

\* C18: the authenticator moves a request presenting a stored, active
\* credential on to the rate limiter with that credential attached and no
\* response made, whatever becomes of the write of last_used: the write is not
\* part of the step and its failure is not visible in the response.
C18_LastUsedOffRequestPath ==
    [][\A w \in Workers :
         LET r == req[w]
             api_key == StripBearer(SelectedHeader(r))
         IN
         (/\ r.pc = "auth" /\ req'[w].pc # "auth"
          /\ ~IsExempt(r.path)
          /\ Truthy(api_key) /\ LookupKey(api_key) # {}) =>
             /\ req'[w].pc = "rl_min"
             /\ req'[w].resp = NoResp
             /\ req'[w].api_key.key \in LookupKey(api_key)
    ]_vars

\* C19: with requests handled concurrently, no step lowers the value stored
\* under a minute or hour counter key whose window is the current one.
C19_CounterNeverDecreases ==
    [][\A k \in DOMAIN cache \cap DOMAIN cache' :
         LET current == IF k[3] = "minute" THEN k[4] = MinuteIndex(now')
                                           ELSE k[4] = HourIndex(now')
         IN current => cache'[k].val >= cache[k].val
    ]_vars

\* C20: every request a worker has picked up is eventually done (its response
\* is returned), whichever stage answers it, given that workers keep running
\* and the downstream call answers or raises.
C20_EveryRequestCompletes ==
    \A w \in Workers : (req[w].pc \notin {"idle", "done"}) ~> (req[w].pc = "done")

\* C20 witness: a request whose downstream call failed is done, after the
\* clock moved on while it was being handled.
C20_Witness ==
    \E w \in Workers :
        /\ req[w].pc = "done"
        /\ req[w].outcome = "ConnectionError"
        /\ req[w].resp.status = 503
        /\ apikeys["k1"].last_used = StartTime
        /\ now > StartTime

\* C21: the headers sent downstream are the inbound headers without those
\* whose lower-cased name is authorization, x-api-key, cookie, host,
\* content-length or transfer-encoding, every other inbound header with its
\* inbound value, and X-Forwarded-For, X-Forwarded-Proto and X-Forwarded-Host
\* in addition.
C21_HeaderSanitization ==
    \A w \in Workers :
        LET r == req[w]
            inbound == RequestHeaders(r)
            sensitive == {"authorization", "x-api-key", "cookie", "host",
                          "content-length", "transfer-encoding"}
            added == {"X-Forwarded-For", "X-Forwarded-Proto", "X-Forwarded-Host"}
        IN
        (r.sent # NoSent) =>
            /\ \A k \in DOMAIN inbound :
                 IF Lower(k) \in sensitive
                   THEN k \notin DOMAIN r.sent.headers
                   ELSE k \in DOMAIN r.sent.headers /\ r.sent.headers[k] = inbound[k]
            /\ added \subseteq DOMAIN r.sent.headers
            /\ DOMAIN r.sent.headers \subseteq DOMAIN inbound \cup added


\* C22: a step of the single-service probe or of the status route leaves every
\* registry row as it was (healthy flag and last-health-check timestamp
\* included), whatever the probes answered, and a proxied request to an active
\* service whose flag is false is answered 503 without a downstream call; the
\* flag changes only by the change form of the admin site.
C22_ProbingLeavesRegistry ==
    /\ [][\A w \in Workers :
            (/\ req[w].pc = "view" /\ Route(req[w].path) = "proxy"
             /\ ServiceNameOf(req[w].path) \in DOMAIN services
             /\ services[ServiceNameOf(req[w].path)].is_active
             /\ ~services[ServiceNameOf(req[w].path)].is_healthy
             /\ req'[w] # req[w])
                => req'[w].pc = "log_resp" /\ req'[w].resp.status = 503 /\ ~req'[w].called]_vars
    /\ [][\A w \in Workers :
            (/\ req[w].pc = "view"
             /\ Route(req[w].path) \in {"service_health", "status"}
             /\ req'[w] # req[w])
                => services' = services]_vars
    /\ [][services' # services =>
            \E w \in Workers : req[w].pc = "view" /\ Route(req[w].path) = "admin"]_vars
\* A probe of the unhealthy service found it healthy and its flag is still false.
C22_Witness ==
    \E w \in Workers :
        /\ req[w].pc = "log_resp"
        /\ Route(req[w].path) \in {"service_health", "status"}
        /\ \E p \in req[w].probed : p.service = "sick" /\ p.healthy
        /\ ~services["sick"].is_healthy

\* C23: no step of the pipeline adds or deletes a credential, and a step
\* changes a credential row only when it is the authenticator accepting a
\* request under that credential, and then only its last_used, set to the
\* current time: secret, active flag and quotas stay, and a request that is
\* refused by the authenticator changes no row.
C23_OnlyLastUsedChanges ==
    [][/\ DOMAIN apikeys' = DOMAIN apikeys
       /\ \A k \in DOMAIN apikeys :
            apikeys'[k] # apikeys[k] =>
                /\ apikeys'[k] = [apikeys[k] EXCEPT !.last_used = now]
                /\ \E w \in Workers :
                     /\ req[w].pc = "auth" /\ req'[w].pc = "rl_min"
                     /\ ~IsExempt(req[w].path)
                     /\ StripBearer(SelectedHeader(req[w])).val = k
                     /\ req'[w].api_key.key = k
       /\ \A w \in Workers :
            (req[w].pc = "auth" /\ req'[w].resp.status = 401) => apikeys' = apikeys
    ]_vars
\* The credential that authenticated the second request of a behaviour has a
\* new last_used; the other credential is as it was.
C23_Witness ==
    /\ served = 2
    /\ \E w \in Workers : req[w].touchedKey /\ apikeys[req[w].api_key.key].last_used = now
    /\ apikeys["k2"] = APIKeyRow(FALSE, apikeys["k2"].requests_per_minute,
                                 apikeys["k2"].requests_per_hour)

\* C24: every AuditEntry has is_error true exactly when it records an
\* exception or a status code of 400 or more; the entry of a request whose
\* downstream call answered records the downstream status, as an error when
\* that status is 4xx or 5xx and not as an error when it is 2xx or 3xx.
C24_IsErrorFlag ==
    /\ \A row \in BagToSet(logs) :
         row.is_error <=> (row.error_message # NoExc \/ row.status_code >= 400)
    /\ \A w \in Workers :
         LET r == req[w] IN
         (r.pc = "done" /\ r.outcome = "response" /\ r.logged >= 1) =>
             \E row \in BagToSet(logs) :
                 /\ row.api_key = r.api_key.key /\ row.path = r.path
                 /\ row.error_message = NoExc
                 /\ row.status_code = r.down.status
                 /\ row.is_error <=> (r.down.status >= 400)
\* An entry records an exception, and the entry of a later request records
\* the 404 its downstream call answered.
C24_Witness ==
    /\ \E row \in BagToSet(logs) : row.error_message # NoExc /\ row.is_error
    /\ \E w \in Workers :
         /\ req[w].pc = "done" /\ req[w].outcome = "response" /\ req[w].logged >= 1
         /\ req[w].down.status = 404
         /\ \E row \in BagToSet(logs) :
              row.path = req[w].path /\ row.status_code = 404 /\ row.is_error

\* C25: when a request was forwarded downstream and an AuditEntry was created
\* for it, that entry records the name of the service and the URL the
\* forwarder called.
C25_EntryNamesService ==
    \A w \in Workers :
        LET r == req[w] IN
        (r.pc = "done" /\ r.called /\ r.logged >= 1) =>
            \E row \in BagToSet(logs) :
                /\ row.api_key = r.api_key.key /\ row.path = r.path
                /\ row.service_name = ServiceNameOf(r.path)
                /\ row.downstream_url = r.target_url

\* C26: the body stored in an AuditEntry has at most 1000 characters, whatever
\* the content type of the request.
C26_StoredBodyBounded ==
    \A row \in BagToSet(logs) : row.body <= 1000

\* C27: when the downstream call answered, with whatever status, the response
\* of the gateway has the downstream status code and body, has every
\* downstream header whose lower-cased name is not content-encoding,
\* content-length, transfer-encoding, connection, keep-alive,
\* proxy-authenticate, proxy-authorization, te, trailers or upgrade, with its
\* value, and has none of those ten.
C27_ResponsePassThrough ==
    \A w \in Workers :
        LET r == req[w]
            hop_by_hop == {"content-encoding", "content-length", "transfer-encoding",
                           "connection", "keep-alive", "proxy-authenticate",
                           "proxy-authorization", "te", "trailers", "upgrade"}
        IN
        (r.pc \in {"log_resp", "done"} /\ r.outcome = "response") =>
            /\ r.resp.status = r.down.status
            /\ r.resp.message = <<r.down.body>>
            /\ r.resp.error = ""
            /\ \A k \in DOMAIN r.down.headers :
                 IF Lower(k) \in hop_by_hop
                   THEN Lower(k) \notin DOMAIN r.resp_headers
                   ELSE /\ Lower(k) \in DOMAIN r.resp_headers
                        /\ r.resp_headers[Lower(k)] = r.down.headers[k]
\* A downstream 404 with a content-encoding and an x-request-id header went
\* back to the client.
C27_Witness ==
    \E w \in Workers :
        /\ req[w].pc = "done" /\ req[w].outcome = "response"
        /\ req[w].down.status = 404 /\ req[w].resp.status = 404
        /\ "content-encoding" \in DOMAIN req[w].down.headers
        /\ "x-request-id" \in DOMAIN req[w].resp_headers

\* C28: the request sent downstream has the method of the inbound request and
\* its query parameters, does not follow redirects, and, whatever the method,
\* carries the body of an inbound request that has one: as JSON when the
\* content type is application/json and the body parses, as raw data otherwise.
C28_MethodQueryBodyForwarded ==
    \A w \in Workers :
        LET r == req[w] IN
        (r.sent # NoSent) =>
            /\ r.sent.method = r.method
            /\ r.sent.params = {r.query[i] : i \in DOMAIN r.query}
            /\ ~r.sent.allow_redirects
            /\ r.body.len > 0 =>
                 /\ r.sent.body = r.body
                 /\ r.sent.body_kind =
                        IF r.content_type = "application/json" /\ r.body.json THEN "json" ELSE "data"

\* C29: the URL the forwarder calls is the base URL of the service without
\* its trailing slash, then the remaining path of the request, with one "/"
\* put before it when it does not start with one; for an empty remaining path
\* it is the base URL without its trailing slash, then "/".
C29_TargetUrl ==
    \A w \in Workers :
        LET r == req[w]
            base_url == get_service_config(ServiceNameOf(r.path)).base_url
            path == RemainingPath(r.path)
            n == Len(base_url)
            stripped == IF base_url[n] = "/" THEN [i \in 1..(n - 1) |-> base_url[i]] ELSE base_url
            url == r.sent.url
        IN
        (r.sent # NoSent) =>
            /\ path = <<>> => url = stripped \o <<"/">>
            /\ (path # <<>> /\ path[1] = "/") => url = stripped \o path
            /\ (path # <<>> /\ path[1] # "/") => url = stripped \o <<"/">> \o path
            /\ url = r.target_url
\* A request with a remaining path that starts with a slash went to a
\* service whose base URL ends with one.
C29_Witness ==
    \E w \in Workers :
        /\ req[w].pc = "done" /\ req[w].called
        /\ req[w].path = <<"api", "proxy", "custom", "/", "x">>
        /\ req[w].sent.url = <<"http://custom", "/", "x">>

\* C30: the GET of a probe of a registered, active service goes to the base
\* URL of the service followed by the health_check_path of its registry row.
C30_ProbeUsesConfiguredPath ==
    \A w \in Workers :
        \A p \in req[w].probed :
            (p.service \in DOMAIN services /\ services[p.service].is_active) =>
                p.url = services[p.service].base_url \o <<services[p.service].health_check_path>>

\* C31: a probe reports healthy exactly when its GET was answered with status
\* 200; another status, a transport error and a name that resolves to no
\* configuration give healthy = false; every probe has a diagnostic text; for
\* a name that resolves to no configuration no GET is issued; and the view
\* that ran the probe answers 200, no exception leaves it.
C31_ProbeResult ==
    \A w \in Workers :
        LET r == req[w] IN
        /\ \A p \in r.probed :
             /\ p.healthy <=> (p.called /\ p.got.raises = NoExc /\ p.got.status = 200)
             /\ p.message # ""
             /\ (p.called /\ p.got.raises = NoExc) => p.message = StatusText(p.got.status)
             /\ (p.called /\ p.got.raises # NoExc) => p.message = p.got.raises
             /\ (p.service \notin ActiveServices /\ p.service \notin DOMAIN DOWNSTREAM_SERVICES) =>
                    ~p.called /\ p.url = <<>> /\ ~p.healthy
        /\ (Route(r.path) = "service_health" /\ r.pc \in {"log_resp", "done"} /\ r.resp.status # 429) =>
             /\ r.exc = NoExc /\ r.outcome # "raised"
             /\ r.probed # {} => r.resp.status = 200
\* The status route probed one service that answered 200 and one that
\* refused the connection.
C31_Witness ==
    \E w \in Workers :
        /\ req[w].pc = "done"
        /\ \E p1, p2 \in req[w].probed :
             /\ p1.healthy /\ p1.got.status = 200
             /\ ~p2.healthy /\ p2.got.raises = "ConnectionError"

\* C32: with requests handled one after another, a step of the rate limiter
\* writes only counters whose key has the credential and the client address
\* of the request it handles, and it answers 429 only when the requests
\* admitted under that credential and address in the current minute, or in
\* the current hour, have reached the quota: requests under another
\* credential or from another address do not count.
C32_CountersScopedByPair ==
    [][\A w \in Workers :
         LET r == req[w]
             secret == r.api_key.key
             address == get_client_ip(r)
         IN
         /\ (r.pc \in {"rl_set_min", "rl_set_hour"} /\ req'[w] # r) =>
               \A k \in DOMAIN cache' :
                   (k \notin DOMAIN cache \/ cache'[k] # cache[k]) =>
                       k[1] = secret /\ k[2] = address
         /\ (r.pc \in {"rl_min", "rl_hour"} /\ req'[w].resp.status = 429) =>
               \/ DictGet(passedMin, <<secret, address, "minute", now \div 60>>, 0)
                     >= apikeys[secret].requests_per_minute
               \/ DictGet(passedHour, <<secret, address, "hour", now \div 3600>>, 0)
                     >= apikeys[secret].requests_per_hour
    ]_vars
\* The quota of k1 from 10.0.0.1 is used up in the current minute and hour,
\* and a request in that minute under k2, or from 10.0.0.2, was admitted.
C32_Witness ==
    \E w \in Workers :
        /\ req[w].pc = "done" /\ req[w].resp.status = 200 /\ req[w].wroteCounter
        /\ <<req[w].api_key.key, get_client_ip(req[w])>> # <<"k1", "10.0.0.1">>
        /\ DictGet(passedMin, <<"k1", "10.0.0.1", "minute", now \div 60>>, 0)
              >= apikeys["k1"].requests_per_minute
        /\ DictGet(passedHour, <<"k1", "10.0.0.1", "hour", now \div 3600>>, 0)
              >= apikeys["k1"].requests_per_hour
        /\ DictGet(passedMin, <<req[w].api_key.key, get_client_ip(req[w]), "minute", now \div 60>>, 0) = 1

\* C33: with requests handled one after another, a request reaching the minute
\* check when no request of its credential and address was admitted in the
\* minute floor(now/60) sees a count of zero and passes the check, however many
\* were admitted in earlier minutes; it is then admitted when fewer than H
\* were admitted in its hour, and the counter it writes for the minute is 1.
C33_NewWindowStartsAtZero ==
    [][\A w \in Workers :
         LET r == req[w]
             secret == r.api_key.key
             address == get_client_ip(r)
             thisMinute == <<secret, address, "minute", now \div 60>>
             thisHour == <<secret, address, "hour", now \div 3600>>
         IN
         /\ (/\ r.pc = "rl_min" /\ req'[w] # r /\ secret # NoKey
              /\ DictGet(passedMin, thisMinute, 0) = 0) =>
                /\ req'[w].pc = "rl_hour" /\ req'[w].resp = NoResp
                /\ req'[w].minute_count = 0
                /\ req'[w].minute_idx = now \div 60
         /\ (/\ r.pc = "rl_hour" /\ req'[w] # r
              /\ DictGet(passedHour, thisHour, 0) < apikeys[secret].requests_per_hour) =>
                req'[w].pc = "rl_set_min" /\ req'[w].resp = NoResp
         /\ (r.pc = "rl_set_min" /\ req'[w] # r /\ r.minute_count = 0) =>
                cache'[<<secret, address, "minute", r.minute_idx>>].val = 1
    ]_vars
\* The minute quota of a credential and address was used up in the previous
\* minute, and a request of theirs has been admitted in the current one as
\* its first.
C33_Witness ==
    \E w \in Workers :
        LET secret == req[w].api_key.key
            address == get_client_ip(req[w])
        IN
        /\ req[w].pc = "done" /\ req[w].resp.status = 200 /\ req[w].wroteCounter
        /\ DictGet(passedMin, <<secret, address, "minute", (now \div 60) - 1>>, 0)
              >= apikeys[secret].requests_per_minute
        /\ DictGet(passedMin, <<secret, address, "minute", now \div 60>>, 0) = 1
        /\ <<secret, address, "minute", now \div 60>> \in DOMAIN cache
        /\ cache[<<secret, address, "minute", now \div 60>>].val = 1

\* C34: no step, of the pipeline or of a management view, removes or changes
\* an AuditEntry: every entry there is before a step is there after it, as
\* many times and with the same field values.
C34_EntriesNeverRemoved ==
    [][\A row \in BagToSet(logs) :
         row \in BagToSet(logs') /\ CopiesIn(row, logs') >= CopiesIn(row, logs)]_vars

\* C35: the step in which the rate limiter answers 429, at the minute check
\* or at the hour check, writes no counter, and a request answered 429 by the
\* rate limiter has written none before: with requests handled one after
\* another, the minute and hour counters of its credential and address are
\* the number of requests admitted under them.
C35_RejectionWritesNothing ==
    /\ [][\A w \in Workers :
            (req[w].pc \in {"rl_min", "rl_hour"} /\ req'[w].resp.status = 429) =>
                cache' = cache]_vars
    /\ [](\A w \in Workers :
            LET r == req[w]
                minute_key == <<r.api_key.key, get_client_ip(r), "minute", now \div 60>>
                hour_key == <<r.api_key.key, get_client_ip(r), "hour", now \div 3600>>
            IN
            (r.resp.status = 429) =>
                /\ ~r.wroteCounter
                /\ minute_key \in DOMAIN cache =>
                      cache[minute_key].val = DictGet(passedMin, minute_key, 0)
                /\ hour_key \in DOMAIN cache =>
                      cache[hour_key].val = DictGet(passedHour, hour_key, 0))
\* A request passed the minute check and was answered 429 at the hour check;
\* the minute counter still has the one request admitted before it.
C35_Witness ==
    \E w \in Workers :
        LET r == req[w]
            minute_key == <<r.api_key.key, get_client_ip(r), "minute", now \div 60>>
        IN
        /\ r.pc = "done" /\ r.resp.status = 429 /\ r.resp.retry_after = 3600
        /\ r.api_key.requests_per_minute = 2
        /\ minute_key \in DOMAIN cache /\ cache[minute_key].val = 1
        /\ DictGet(passedMin, minute_key, 0) = 1

\* C36: whenever no request is between the reads and the writes of its
\* counters, the hour counter of a credential and address (zero when there is
\* none) is at least each of their minute counters for a minute of that hour.
C36_HourCoversMinutes ==
    NoCounterUpdateInFlight =>
        \A k \in DOMAIN cache :
            LET hour_key == <<k[1], k[2], "hour", (k[4] * 60) \div 3600>>
                hour_count == IF hour_key \in DOMAIN cache THEN cache[hour_key].val ELSE 0
            IN k[3] = "minute" => hour_count >= cache[k].val

\* C37: for a request with a non-empty X-API-Key header and an Authorization
\* header, the authenticator decides by the X-API-Key value without its
\* "Bearer " prefix, whatever the Authorization header holds: it attaches the
\* credential when that value is the secret of an active credential and
\* answers 401 otherwise.
C37_ApiKeyHeaderDecides ==
    [][\A w \in Workers :
         LET r == req[w]
             value == r.xkey.val
         IN
         (/\ r.pc = "auth" /\ req'[w] # r
          /\ r.path[1] \notin {"admin", "health"}
          /\ r.xkey.present /\ (r.xkey.bearer \/ r.xkey.val # "")
          /\ r.authz.present) =>
             IF value \in DOMAIN apikeys /\ apikeys[value].is_active
               THEN /\ req'[w].pc = "rl_min" /\ req'[w].resp = NoResp
                    /\ req'[w].api_key.key = value
               ELSE /\ req'[w].resp.status = 401
                    /\ req'[w].api_key.key = NoKey
    ]_vars
\* A request with an unknown X-API-Key and a Bearer token that is the secret
\* of an active credential has been answered 401.
C37_Witness ==
    \E w \in Workers :
        /\ req[w].pc = "done" /\ req[w].resp.status = 401
        /\ req[w].xkey = Hdr(FALSE, "zz")
        /\ req[w].authz = Hdr(TRUE, "k1")

\* The requests admitted in minute m under a credential, over all the client
\* addresses they were counted under.
RECURSIVE SumAdmitted(_)
SumAdmitted(keys) ==
    IF keys = {} THEN 0
    ELSE LET k == CHOOSE x \in keys : TRUE
         IN passedMin[k] + SumAdmitted(keys \ {k})
AdmittedInMinute(secret, m) ==
    SumAdmitted({k \in DOMAIN passedMin : k[1] = secret /\ k[4] = m})

\* C38: with requests handled one after another, all arriving from the one
\* network peer 10.0.0.1, at most Q requests of a credential are admitted in
\* one minute, whatever X-Forwarded-For headers they carry.
C38_PeerAddressScopesCounter ==
    \A k \in DOMAIN passedMin :
        AdmittedInMinute(k[1], k[4]) <= apikeys[k[1]].requests_per_minute
====
